---- MODULE Spec2Model ----
(***************************************************************************)
(* You Hoard: job processor (app/core/downloader.py), extraction gateway   *)
(* (app/core/ytdlp_service.py), subscription scheduler                     *)
(* (app/core/scheduler.py), content classification                         *)
(* (app/core/metadata.py), subscription endpoints                          *)
(* (app/api/endpoints/subscriptions.py), download endpoints                *)
(* (app/api/endpoints/downloads.py) and recovery scan                      *)
(* (app/core/recovery.py).                                                 *)
(*                                                                         *)
(* The module holds one group of variables per component and one           *)
(* specification per component:                                            *)
(*   SpecClassify   classify_video_type over a bounded entry space         *)
(*   SpecGateway    YTDLPService: rate limiter and retry loop              *)
(*   Spec           download jobs: the enqueue paths of the API and of the *)
(*                  scheduler, and the tasks of the two Downloader objects *)
(*   SpecJobs       Spec with discovery jobs and cancel_download           *)
(*   SpecDiscovery  SubscriptionScheduler._check_subscription runs         *)
(*   SpecGatewayFair, SpecDiscoveryFair  the same with weak fairness of    *)
(*                  the timers and of the steps of a started run           *)
(*   SpecBackoff    the backoff of the retry loop under other settings     *)
(*   SpecChecks     cron runs next to the discovery jobs of manual checks  *)
(*   SpecTriggers   the scheduler's trigger registry                       *)
(*   SpecSubscriptions  the subscription endpoints, two requests at a time *)
(*   SpecApiJobs    the download jobs of the API's Downloader alone        *)
(*   SpecApiJobsFair  SpecApiJobs with weak fairness of the tasks' steps    *)
(*   SpecRetry      SpecApiJobs with the retry endpoints                   *)
(*   SpecDiscoveryFaults  SpecDiscovery with enqueues that raise           *)
(*   SpecRecovery   calls of RecoveryManager.scan_and_recover              *)
(*   SpecRecoveryFaults  SpecRecovery with store statements that raise      *)
(*   SpecPriority   download requests with priorities, waiters in order    *)
(*   SpecRestart    SpecApiJobs in a process that dies and starts again    *)
(*   SpecProgress   download jobs with progress hooks and their writes     *)
(*   SpecToggles    subscription requests one after the other, parseable   *)
(*                  cron expressions only                                  *)
(* A specification keeps the variables of the other components constant.   *)
(***************************************************************************)
EXTENDS Integers, Sequences, FiniteSets, TLC

VARIABLES
    \* ---- classification (metadata.py)
    entry,            \* the yt-dlp info dict handed to classify_video_type
    video_type,       \* its return value, "none" before the call
    \* ---- extraction gateway (ytdlp_service.py)
    since,            \* time.time() - last_request_time, saturated at the interval
    failure_count,    \* YTDLPService.failure_count
    gpc,              \* per caller: where its _run_with_retries coroutine stands
    rem,              \* per caller: remaining asyncio.sleep time, saturated
    attempt,          \* per caller: loop variable of _run_with_retries
    calls,            \* per caller: invocations of func() in the current operation
    backoffs,         \* per caller: backoff sleeps started in the current operation
    last_err,         \* per caller: message id of the last exception of func(), or "none"
    raised,           \* per caller: what the operation raised: "none", a message id, or "exhausted"
    dispatch_gap,     \* time between the latest two dispatches, saturated at the interval
    \* ---- persistent store (database.py) and job processor (downloader.py)
    videos,           \* table videos: row id = index
    jobs,             \* table job_queue: row id = index
    tasks,            \* the asyncio task of each job: its Downloader and where it stands
    permits,          \* per Downloader: Semaphore._value
    active_downloads, \* per Downloader: keys of the dict active_downloads (video ids)
    active_tasks,     \* per Downloader: keys of the dict active_tasks (queue ids)
    cancel_op,        \* the cancel_download call in progress, if any
    \* ---- scheduler (scheduler.py)
    youtube_id_unique, \* whether the schema declares videos.youtube_id UNIQUE
    sub_rows,         \* table subscriptions: last_check and new_videos_count
    events,           \* table scheduler_events: row id = index
    run,              \* per subscription: the locals of its _check_subscription run
    \* ---- backoff of the retry loop under other settings (config.py)
    backoff_settings, \* settings.YTDLP_MIN_BACKOFF and settings.YTDLP_MAX_BACKOFF
    delays,           \* the backoffs of the consecutive failures of one operation
    \* ---- trigger registry of the scheduler (scheduler.py)
    sched_jobs,       \* self.scheduler's jobs, one record per add_job
    accepted,         \* per subscription: the last expression from_crontab parsed
                      \* since its last removal (history)
    last_call,        \* the last call of the scheduler's interface and its end
    \* ---- subscription endpoints (api/endpoints/subscriptions.py)
    sub_table,        \* table subscriptions: per id its row
    reqs,             \* per handler: the request it serves and where it stands
    next_id,          \* the id the next INSERT INTO subscriptions returns
    content_types_nullable, \* whether the column content_types accepts NULL
    started,          \* number of requests received
    \* ---- download endpoints (api/endpoints/downloads.py)
    download_queue_table, \* whether the schema has a table download_queue
    retry_call,       \* the last retry request and its response
    \* ---- recovery scan (core/recovery.py)
    archive,          \* the directories under <storage>/channels
    channels,         \* table channels: row id = index
    video_rows,       \* table videos as the scan writes it: row id = index
    scans_run,        \* number of calls of scan_and_recover so far
    scan,             \* the locals of the current (or last) scan_and_recover
    \* ---- order of admission (asyncio.Semaphore of the API's Downloader)
    job_priority,     \* column priority of job_queue: per job id
    waiters,          \* Semaphore._waiters: the job ids of the waiting tasks, first come first
    \* ---- progress of a download (downloader.py)
    job_progress,     \* table job_queue: column progress, per row
    progress,         \* per job: DownloadProgress.progress of its download
    callbacks,        \* per job: scheduled _update_progress_db_async calls not yet run
    attempts          \* per job: attempts of _run_with_retries begun

clsVars == <<entry, video_type>>
gwVars == <<since, failure_count, gpc, rem, attempt, calls, backoffs, last_err,
            raised, dispatch_gap>>
jobVars == <<videos, jobs, tasks, permits, active_downloads,
             active_tasks, cancel_op>>
schedVars == <<youtube_id_unique, sub_rows, events, run>>
bkVars == <<backoff_settings, delays>>
\* the groups a specification of one of the four components above leaves alone
trigVars == <<sched_jobs, accepted, last_call>>
subVars == <<sub_table, reqs, next_id, content_types_nullable, started>>
retryVars == <<download_queue_table, retry_call>>
\* the groups of the endpoints and of the boot-time services
recVars == <<archive, channels, video_rows, scans_run, scan>>
prioVars == <<job_priority, waiters>>
progVars == <<job_progress, progress, callbacks, attempts>>
lateVars == <<retryVars, recVars, prioVars, progVars>>
restVars == <<bkVars, trigVars, subVars, lateVars>>
vars == <<clsVars, gwVars, jobVars, schedVars, restVars>>

Min(a, b) == IF a < b THEN a ELSE b
Max(a, b) == IF a > b THEN a ELSE b

RECURSIVE Pow2(_)
Pow2(n) == IF n <= 0 THEN 1 ELSE 2 * Pow2(n - 1)

(***************************************************************************)
(* metadata.py: classify_video_type                                        *)
(***************************************************************************)

\* width / height < 1.0 in float arithmetic, for the positive integers below
\* 2^53 the guard of the caller admits
AspectRatioBelowOne(width, height) == width < height

\* dict.get with a default: an absent key reads as False, '' or 0, which is
\* how the entry space below writes an absent field
classify_video_type(ytdlp_info) ==
    IF ytdlp_info.is_live THEN "live"
    ELSE IF ytdlp_info.live_status \in {"is_live", "is_upcoming"} THEN "live"
    ELSE IF ytdlp_info.height > 0 /\ ytdlp_info.width > 0
            /\ AspectRatioBelowOne(ytdlp_info.width, ytdlp_info.height) THEN "short"
    ELSE IF ytdlp_info.duration # 0 /\ ytdlp_info.duration <= 60
            /\ ytdlp_info.width # 0 /\ ytdlp_info.height # 0
            /\ ytdlp_info.width < ytdlp_info.height THEN "short"
    ELSE "video"

LiveStatuses == {"", "is_live", "is_upcoming", "was_live", "not_live"}
Widths == {0, 480, 1080, 1920}
Heights == {0, 854, 1080, 1920}
Durations == {0, 30, 60, 61, 600}

EntrySpace ==
    [is_live : BOOLEAN, live_status : LiveStatuses, width : Widths,
     height : Heights, duration : Durations]

NoEntry ==
    [is_live |-> FALSE, live_status |-> "", width |-> 0, height |-> 0, duration |-> 0]

ClsInit == entry \in EntrySpace /\ video_type = "none"
ClsIdle == entry = NoEntry /\ video_type = "none"

Classify ==
    /\ video_type = "none"
    /\ video_type' = classify_video_type(entry)
    /\ UNCHANGED entry

(***************************************************************************)
(* ytdlp_service.py: YTDLPService                                          *)
(***************************************************************************)

YTDLP_MIN_REQUEST_INTERVAL == 3
YTDLP_MIN_BACKOFF == 2
YTDLP_MAX_BACKOFF == 600
YTDLP_MAX_RETRIES == 5

\* the jobs that call the gateway concurrently
Callers == {"job1", "job2"}
\* an operation starts only while failure_count is below MaxFailures
MaxFailures == 2
\* func() blocks the event loop for 0..MaxFuncTime time units
MaxFuncTime == 1
\* a sleep longer than SleepHorizon is modelled as lasting SleepHorizon: the
\* limiter cannot tell, its clock saturates at the request interval
SleepHorizon == 4

\* str(e) of the exceptions func() raises, as token sequences
MessageIds == {"removed", "private403", "rate429", "timeout"}
Message(id) ==
    CASE id = "removed" -> <<"This", "video", "has", "been", "removed">>
      [] id = "private403" -> <<"HTTP", "Error", "403", "Private", "video">>
      [] id = "rate429" -> <<"HTTP", "Error", "429", "Too", "Many", "Requests">>
      [] id = "timeout" -> <<"Connection", "timed", "out">>

\* str.lower() on one token
LowerToken(tok) ==
    CASE tok = "This" -> "this"
      [] tok = "HTTP" -> "http"
      [] tok = "Error" -> "error"
      [] tok = "Private" -> "private"
      [] tok = "Too" -> "too"
      [] tok = "Many" -> "many"
      [] tok = "Requests" -> "requests"
      [] tok = "Connection" -> "connection"
      [] OTHER -> tok

Lower(str) == [i \in 1..Len(str) |-> LowerToken(str[i])]

\* the regular expressions of _is_permanent_error: literal phrases joined by .*
permanent_patterns ==
    << << <<"youtube", "account">>, <<"terminated">> >>,
       << <<"youtube", "account">>, <<"suspended">> >>,
       << <<"channel">>, <<"terminated">> >>,
       << <<"channel">>, <<"suspended">> >>,
       << <<"video">>, <<"deleted">> >>,
       << <<"video">>, <<"removed">> >>,
       << <<"video">>, <<"no", "longer", "available">> >>,
       << <<"video">>, <<"unavailable">> >>,
       << <<"this", "video", "has", "been", "removed">> >>,
       << <<"private", "video">> >>,
       << <<"video">>, <<"private">> >>,
       << <<"video">>, <<"not", "available", "in", "your", "country">> >>,
       << <<"geo">>, <<"restrict">> >>,
       << <<"blocked", "in", "your", "country">> >>,
       << <<"sign", "in", "to", "confirm", "your", "age">> >>,
       << <<"age">>, <<"restrict">>, <<"sign", "in">> >>,
       << <<"playlist">>, <<"does", "not", "exist">> >>,
       << <<"channel">>, <<"does", "not", "exist">> >>,
       << <<"playlist">>, <<"not", "found">> >>,
       << <<"channel">>, <<"not", "found">> >>,
       << <<"copyright">>, <<"claim">> >>,
       << <<"dmca">>, <<"takedown">> >>,
       << <<"unsupported", "url">> >>,
       << <<"invalid">>, <<"url">> >>,
       << <<"unable", "to", "extract">>, <<"id">> >> >>

PhraseAt(str, phrase, i) ==
    /\ i + Len(phrase) - 1 <= Len(str)
    /\ \A k \in 1..Len(phrase) : str[i + k - 1] = phrase[k]

RECURSIVE MatchFrom(_, _, _, _)
MatchFrom(str, pattern, k, from) ==
    \E i \in from..Len(str) :
        /\ PhraseAt(str, pattern[k], i)
        /\ \/ k = Len(pattern)
           \/ MatchFrom(str, pattern, k + 1, i + Len(pattern[k]))

re_search(pattern, str) == MatchFrom(str, pattern, 1, 1)

_is_permanent_error(error) ==
    \E p \in 1..Len(permanent_patterns) :
        re_search(permanent_patterns[p], Lower(Message(error)))

\* '403' in str(e) or '429' in str(e)
IsBlockingError(error) ==
    \E i \in 1..Len(Message(error)) : Message(error)[i] \in {"403", "429"}

\* random.uniform(5, 10), by its end points
BlockingMultipliers == {5, 10}

\* min(settings.YTDLP_MIN_BACKOFF * (2 ** (attempt - 1)), settings.YTDLP_MAX_BACKOFF)
BackoffUnder_uncapped(min_backoff, max_backoff, att) == min_backoff * Pow2(att - 1)

BackoffUnder(min_backoff, max_backoff, att) ==
    Min(min_backoff * Pow2(att - 1), max_backoff)

ComputeBackoff(att) == BackoffUnder(YTDLP_MIN_BACKOFF, YTDLP_MAX_BACKOFF, att)

\* _is_permanent_error(str(e)) of each of the messages
permanent == [id \in MessageIds |-> _is_permanent_error(id)]

\* the except branch of _run_with_retries: what follows a failure of func()
OnFailure_blocking_first(error, att) ==
    IF att >= YTDLP_MAX_RETRIES THEN "break"
    ELSE IF IsBlockingError(error) THEN "sleep"
    ELSE IF permanent[error] THEN "raise"
    ELSE "sleep"

OnFailure_one_more_attempt(error, att) ==
    IF permanent[error] THEN "raise"
    ELSE IF att > YTDLP_MAX_RETRIES THEN "break"
    ELSE "sleep"

OnFailure(error, att) ==
    IF permanent[error] THEN "raise"
    ELSE IF att >= YTDLP_MAX_RETRIES THEN "break"
    ELSE "sleep"

Sleeping(c) == gpc[c] \in {"rate_sleep", "backoff_sleep"}

\* last_request_time = time.time(), then func(): it blocks the loop for d time
\* units and returns ("ok") or raises the exception out
RunFunc(c, att, cl, bo, d, out, mult) ==
    LET verdict == IF out = "ok" THEN "ok" ELSE OnFailure(out, att) IN
    /\ dispatch_gap' = since
    /\ since' = Min(d, YTDLP_MIN_REQUEST_INTERVAL)
    /\ attempt' = [attempt EXCEPT ![c] = att]
    /\ calls' = [calls EXCEPT ![c] = cl + 1]
    /\ IF out = "ok"
       THEN /\ gpc' = [gpc EXCEPT ![c] = "returned"]
            /\ rem' = [x \in Callers |-> IF x = c THEN 0 ELSE Max(rem[x] - d, 0)]
            /\ backoffs' = [backoffs EXCEPT ![c] = bo]
            /\ raised' = [raised EXCEPT ![c] = "none"]
            /\ UNCHANGED <<failure_count, last_err>>
       ELSE /\ failure_count' = failure_count + 1
            /\ last_err' = [last_err EXCEPT ![c] = out]
            /\ CASE verdict = "raise" ->
                      /\ gpc' = [gpc EXCEPT ![c] = "raised"]
                      /\ raised' = [raised EXCEPT ![c] = out]
                      /\ rem' = [x \in Callers |-> IF x = c THEN 0 ELSE Max(rem[x] - d, 0)]
                      /\ backoffs' = [backoffs EXCEPT ![c] = bo]
                 [] verdict = "break" ->
                      /\ gpc' = [gpc EXCEPT ![c] = "raised"]
                      /\ raised' = [raised EXCEPT ![c] = "exhausted"]
                      /\ rem' = [x \in Callers |-> IF x = c THEN 0 ELSE Max(rem[x] - d, 0)]
                      /\ backoffs' = [backoffs EXCEPT ![c] = bo]
                 [] OTHER ->
                      /\ gpc' = [gpc EXCEPT ![c] = "backoff_sleep"]
                      /\ raised' = [raised EXCEPT ![c] = "none"]
                      /\ rem' = [x \in Callers |->
                                   IF x = c
                                   THEN Min(ComputeBackoff(att)
                                              * (IF IsBlockingError(out) THEN mult ELSE 1),
                                            SleepHorizon)
                                   ELSE Max(rem[x] - d, 0)]
                      /\ backoffs' = [backoffs EXCEPT ![c] = bo + 1]

\* _enforce_rate_limit up to its sleep, or through to func() when none is due
_enforce_rate_limit(c, att, cl, bo) ==
    IF since < YTDLP_MIN_REQUEST_INTERVAL
    THEN /\ gpc' = [gpc EXCEPT ![c] = "rate_sleep"]
         /\ rem' = [rem EXCEPT ![c] = YTDLP_MIN_REQUEST_INTERVAL - since]
         /\ attempt' = [attempt EXCEPT ![c] = att]
         /\ calls' = [calls EXCEPT ![c] = cl]
         /\ backoffs' = [backoffs EXCEPT ![c] = bo]
         /\ UNCHANGED <<since, failure_count, last_err, raised, dispatch_gap>>
    ELSE \E d \in 0..MaxFuncTime, out \in MessageIds \cup {"ok"}, mult \in BlockingMultipliers :
             RunFunc(c, att, cl, bo, d, out, mult)

\* extract_info / download_with_progress: _run_with_retries begins attempt 1
StartOperation(c) ==
    /\ gpc[c] = "idle"
    /\ failure_count < MaxFailures
    /\ _enforce_rate_limit(c, 1, 0, 0)

\* the sleep of _enforce_rate_limit is over: last_request_time is written and
\* func() is called, whatever the other callers did meanwhile
WakeRateSleep(c) ==
    /\ gpc[c] = "rate_sleep"
    /\ rem[c] = 0
    /\ \E d \in 0..MaxFuncTime, out \in MessageIds \cup {"ok"}, mult \in BlockingMultipliers :
           RunFunc(c, attempt[c], calls[c], backoffs[c], d, out, mult)

\* asyncio.sleep(backoff) is over: the next attempt begins
WakeBackoffSleep(c) ==
    /\ gpc[c] = "backoff_sleep"
    /\ rem[c] = 0
    /\ _enforce_rate_limit(c, attempt[c] + 1, calls[c], backoffs[c])

\* the caller takes the result or the exception
FinishOperation(c) ==
    /\ gpc[c] \in {"returned", "raised"}
    /\ gpc' = [gpc EXCEPT ![c] = "idle"]
    /\ attempt' = [attempt EXCEPT ![c] = 0]
    /\ calls' = [calls EXCEPT ![c] = 0]
    /\ backoffs' = [backoffs EXCEPT ![c] = 0]
    /\ last_err' = [last_err EXCEPT ![c] = "none"]
    /\ raised' = [raised EXCEPT ![c] = "none"]
    /\ UNCHANGED <<since, failure_count, rem, dispatch_gap>>

\* one time unit passes with the event loop idle: no timer is due
Tick ==
    /\ \A c \in Callers : Sleeping(c) => rem[c] > 0
    /\ \/ since < YTDLP_MIN_REQUEST_INTERVAL
       \/ \E c \in Callers : Sleeping(c)
    /\ since' = Min(since + 1, YTDLP_MIN_REQUEST_INTERVAL)
    /\ rem' = [c \in Callers |-> Max(rem[c] - 1, 0)]
    /\ UNCHANGED <<failure_count, gpc, attempt, calls, backoffs, last_err, raised,
                   dispatch_gap>>

GwInit ==
    /\ since = YTDLP_MIN_REQUEST_INTERVAL
    /\ failure_count = 0
    /\ gpc = [c \in Callers |-> "idle"]
    /\ rem = [c \in Callers |-> 0]
    /\ attempt = [c \in Callers |-> 0]
    /\ calls = [c \in Callers |-> 0]
    /\ backoffs = [c \in Callers |-> 0]
    /\ last_err = [c \in Callers |-> "none"]
    /\ raised = [c \in Callers |-> "none"]
    /\ dispatch_gap = YTDLP_MIN_REQUEST_INTERVAL

(***************************************************************************)
(* downloader.py: Downloader, with its callers in the API endpoints         *)
(***************************************************************************)

MAX_CONCURRENT_DOWNLOADS == 2

\* app.state.downloader (api/endpoints get_downloader) and the instance
\* SubscriptionScheduler.start creates for itself
Downloaders == {"api", "scheduler"}

MaxJobs == 3
MaxVideos == 3

\* the external ids of the videos the store comes to hold, in insertion order
YoutubeIdPool == <<"a1", "a3", "a5", "a0", "a2", "a4", "b0", "b1">>

VideoIds == 1..Len(videos)
JobIds == 1..Len(jobs)
VideoExists(v) == v \in VideoIds

\* UPDATE job_queue SET status = ? WHERE video_id = ?
UpdateJobsByVideo(v, status) ==
    [j \in 1..Len(jobs) |->
        IF jobs[j].video_id = v THEN [jobs[j] EXCEPT !.status = status] ELSE jobs[j]]

\* UPDATE job_queue SET status = ? WHERE id = ?
UpdateJobById(q, status) ==
    [j \in 1..Len(jobs) |->
        IF j = q THEN [jobs[j] EXCEPT !.status = status] ELSE jobs[j]]

\* UPDATE videos SET download_status = ? WHERE id = ?
UpdateVideoById(v, status) ==
    [i \in 1..Len(videos) |->
        IF i = v THEN [videos[i] EXCEPT !.download_status = status] ELSE videos[i]]

\* INSERT INTO videos
InsertVideo(youtube_id) ==
    Append(videos, [youtube_id |-> youtube_id, download_status |-> "pending"])

\* Downloader.queue_download: INSERT INTO job_queue, create_task(_process_job)
queue_download(d, video_id) ==
    /\ jobs' = Append(jobs, [job_type |-> "download", video_id |-> video_id,
                             subscription_id |-> 0, status |-> "queued"])
    /\ tasks' = Append(tasks, [owner |-> d, pc |-> "select_job"])
    /\ active_tasks' = [active_tasks EXCEPT ![d] = @ \cup {Len(jobs) + 1}]

\* Downloader.queue_subscription_discovery
queue_subscription_discovery(d, subscription_id) ==
    /\ jobs' = Append(jobs, [job_type |-> "subscription_discovery", video_id |-> 0,
                             subscription_id |-> subscription_id, status |-> "queued"])
    /\ tasks' = Append(tasks, [owner |-> d, pc |-> "select_job"])
    /\ active_tasks' = [active_tasks EXCEPT ![d] = @ \cup {Len(jobs) + 1}]

\* ---- the endpoints and the scheduler that enqueue

\* videos.py create_video: the video is new, its row is inserted and its
\* download queued at the API's Downloader
create_video ==
    /\ Len(videos) < MaxVideos
    /\ Len(jobs) < MaxJobs
    /\ videos' = InsertVideo(YoutubeIdPool[Len(videos) + 1])
    /\ queue_download("api", Len(videos) + 1)
    /\ UNCHANGED <<permits, active_downloads, cancel_op>>

\* videos.py queue_video_download: 404 without the video; the existence check
\* reads download_queue, a table no statement of the program inserts into
\* (jobs are rows of job_queue), so it never finds a row; then queue_download.
\* In a store without that table the request fails at the check and the
\* action never happens: those behaviours are among the ones allowed here
queue_video_download(video_id) ==
    /\ Len(jobs) < MaxJobs
    /\ VideoExists(video_id)
    /\ queue_download("api", video_id)
    /\ UNCHANGED <<videos, permits, active_downloads, cancel_op>>

\* videos.py bulk_operation, operation "download", one id of the list
bulk_download(video_id) ==
    /\ Len(jobs) < MaxJobs
    /\ queue_download("api", video_id)
    /\ UNCHANGED <<videos, permits, active_downloads, cancel_op>>

\* scheduler.py _check_subscription, one matched entry with auto_download:
\* the video row is inserted and its download queued at the scheduler's
\* Downloader
scheduler_auto_download ==
    /\ Len(videos) < MaxVideos
    /\ Len(jobs) < MaxJobs
    /\ videos' = InsertVideo(YoutubeIdPool[Len(videos) + 1])
    /\ queue_download("scheduler", Len(videos) + 1)
    /\ UNCHANGED <<permits, active_downloads, cancel_op>>

\* subscriptions.py check_subscription / create_subscription
queue_discovery_job(subscription_id) ==
    /\ Len(jobs) < MaxJobs
    /\ queue_subscription_discovery("api", subscription_id)
    /\ UNCHANGED <<videos, permits, active_downloads, cancel_op>>

\* ---- the task of one job: _process_job and what it calls

SetPc(j, pc) == [tasks EXCEPT ![j].pc = pc]

\* asyncio.Semaphore: acquire returns at once while _value > 0
CanAcquire_never_blocks(d) == permits[d] >= 0

CanAcquire(d) == permits[d] > 0

\* async with self._semaphore entered, active_downloads[video_id] = progress
EnterDownload(j) ==
    /\ permits' = [permits EXCEPT ![tasks[j].owner] = @ - 1]
    /\ active_downloads' = [active_downloads EXCEPT ![tasks[j].owner] =
                                @ \cup {jobs[j].video_id}]
    /\ tasks' = SetPc(j, "mark_downloading")

\* _process_job: SELECT the job WHERE id = ? AND status IN (queued, downloading,
\* processing); no row: return, before the try whose finally untracks the task
SelectJob(j) ==
    /\ tasks[j].pc = "select_job"
    /\ tasks' = SetPc(j,
           IF jobs[j].status \in {"queued", "downloading", "processing"}
           THEN (IF jobs[j].job_type = "download" THEN "select_video"
                 ELSE "mark_processing")
           ELSE "returned")
    /\ UNCHANGED <<videos, jobs, permits, active_downloads,
                   active_tasks, cancel_op>>

\* _process_download_job: SELECT the video; missing: ValueError, whose handler
\* in _process_job dies on the undefined name logger before it writes the job
\* row; else download_video up to its first await
SelectVideo(j) ==
    /\ tasks[j].pc = "select_video"
    /\ IF ~VideoExists(jobs[j].video_id)
       THEN /\ tasks' = SetPc(j, "crashed")
            /\ active_tasks' = [active_tasks EXCEPT ![tasks[j].owner] = @ \ {j}]
            /\ UNCHANGED <<permits, active_downloads>>
       ELSE IF CanAcquire(tasks[j].owner)
       THEN EnterDownload(j) /\ UNCHANGED active_tasks
       ELSE /\ tasks' = SetPc(j, "wait_permit")
            /\ UNCHANGED <<permits, active_downloads, active_tasks>>
    /\ UNCHANGED <<videos, jobs, cancel_op>>

\* a permit was released while the task waited in Semaphore.acquire
Admit(j) ==
    /\ tasks[j].pc = "wait_permit"
    /\ CanAcquire(tasks[j].owner)
    /\ EnterDownload(j)
    /\ UNCHANGED <<videos, jobs, active_tasks, cancel_op>>

\* download_video: UPDATE job_queue SET status = 'downloading' WHERE video_id = ?
MarkDownloading(j) ==
    /\ tasks[j].pc = "mark_downloading"
    /\ jobs' = UpdateJobsByVideo(jobs[j].video_id, "downloading")
    /\ tasks' = SetPc(j, "transfer")
    /\ UNCHANGED <<videos, permits, active_downloads,
                   active_tasks, cancel_op>>

\* download_with_progress returns, or it (or the bookkeeping after it) raises
TransferEnds(j, ok) ==
    /\ tasks[j].pc = "transfer"
    /\ tasks' = SetPc(j, IF ok THEN "write_video_completed" ELSE "write_video_failed")
    /\ UNCHANGED <<videos, jobs, permits, active_downloads,
                   active_tasks, cancel_op>>

\* download_video: UPDATE videos SET download_status = ? WHERE id = ?
WriteVideo(j) ==
    /\ tasks[j].pc \in {"write_video_completed", "write_video_failed"}
    /\ videos' = UpdateVideoById(jobs[j].video_id,
                     IF tasks[j].pc = "write_video_completed" THEN "completed"
                     ELSE "failed")
    /\ tasks' = SetPc(j, IF tasks[j].pc = "write_video_completed"
                         THEN "write_job_completed" ELSE "write_job_failed")
    /\ UNCHANGED <<jobs, permits, active_downloads,
                   active_tasks, cancel_op>>

\* WriteJob with a failure handler that puts the job back into the queue
WriteJob_requeues_failed(j) ==
    /\ tasks[j].pc \in {"write_job_completed", "write_job_failed"}
    /\ jobs' = UpdateJobsByVideo(jobs[j].video_id,
                   IF tasks[j].pc = "write_job_completed" THEN "completed"
                   ELSE "queued")
    /\ tasks' = SetPc(j, IF jobs[j].video_id \in active_downloads[tasks[j].owner]
                         THEN "done" ELSE "crashed")
    /\ active_downloads' = [active_downloads EXCEPT ![tasks[j].owner] =
                                @ \ {jobs[j].video_id}]
    /\ permits' = [permits EXCEPT ![tasks[j].owner] = @ + 1]
    /\ active_tasks' = [active_tasks EXCEPT ![tasks[j].owner] = @ \ {j}]
    /\ UNCHANGED <<videos, cancel_op>>

\* download_video: UPDATE job_queue SET status = ? WHERE video_id = ?, then the
\* finally (del active_downloads[video_id], a KeyError when another download of
\* the video removed the key), the release of the permit and the finally of
\* _process_job
WriteJob(j) ==
    /\ tasks[j].pc \in {"write_job_completed", "write_job_failed"}
    /\ jobs' = UpdateJobsByVideo(jobs[j].video_id,
                   IF tasks[j].pc = "write_job_completed" THEN "completed"
                   ELSE "failed")
    /\ tasks' = SetPc(j, IF jobs[j].video_id \in active_downloads[tasks[j].owner]
                         THEN "done" ELSE "crashed")
    /\ active_downloads' = [active_downloads EXCEPT ![tasks[j].owner] =
                                @ \ {jobs[j].video_id}]
    /\ permits' = [permits EXCEPT ![tasks[j].owner] = @ + 1]
    /\ active_tasks' = [active_tasks EXCEPT ![tasks[j].owner] = @ \ {j}]
    /\ UNCHANGED <<videos, cancel_op>>

\* _process_subscription_discovery_job: UPDATE job_queue SET status =
\* 'processing' WHERE id = ?
MarkProcessing(j) ==
    /\ tasks[j].pc = "mark_processing"
    /\ jobs' = UpdateJobById(j, "processing")
    /\ tasks' = SetPc(j, "select_subscription")
    /\ UNCHANGED <<videos, permits, active_downloads,
                   active_tasks, cancel_op>>

\* _process_subscription_discovery_job: SELECT the subscription; missing:
\* ValueError; found: logger.info, an undefined name in downloader.py; either
\* way the handler of _process_job dies on logger.error before it writes
SelectSubscription(j) ==
    /\ tasks[j].pc = "select_subscription"
    /\ tasks' = SetPc(j, "crashed")
    /\ active_tasks' = [active_tasks EXCEPT ![tasks[j].owner] = @ \ {j}]
    /\ UNCHANGED <<videos, jobs, permits, active_downloads,
                   cancel_op>>

\* ---- Downloader.cancel_download(x): x indexes active_tasks (queue ids) and
\* is the video id of its UPDATE statements

HoldsPermit(pc) ==
    pc \in {"mark_downloading", "transfer", "write_video_completed",
            "write_video_failed", "write_job_completed", "write_job_failed"}

\* task.cancel(); await task. The task unwinds from its await: the write it
\* awaited commits or not (committed); inside the try of _process_job its
\* finally untracks it and cancel_download then dies on del active_tasks[x];
\* cancelled at the first SELECT it stays tracked and cancel_download goes on
cancel_download(d, x, committed) ==
    /\ cancel_op.pc = "idle"
    /\ x \in active_tasks[d]
    /\ tasks[x].pc \notin {"returned", "done", "crashed", "cancelled"}
    /\ tasks' = SetPc(x, "cancelled")
    /\ active_tasks' = [active_tasks EXCEPT ![d] = @ \ {x}]
    /\ IF tasks[x].pc = "select_job"
       THEN /\ active_downloads' = [active_downloads EXCEPT ![d] = @ \ {x}]
            /\ cancel_op' = [pc |-> "write_jobs", video_id |-> x]
            /\ UNCHANGED <<permits, jobs, videos>>
       ELSE /\ cancel_op' = cancel_op
            /\ IF HoldsPermit(tasks[x].pc)
               THEN /\ permits' = [permits EXCEPT ![d] = @ + 1]
                    /\ active_downloads' = [active_downloads EXCEPT ![d] =
                                                @ \ {jobs[x].video_id}]
               ELSE UNCHANGED <<permits, active_downloads>>
            /\ jobs' =
                 IF ~committed THEN jobs
                 ELSE CASE tasks[x].pc = "mark_downloading" ->
                               UpdateJobsByVideo(jobs[x].video_id, "downloading")
                        [] tasks[x].pc = "mark_processing" ->
                               UpdateJobById(x, "processing")
                        [] tasks[x].pc = "write_job_completed" ->
                               UpdateJobsByVideo(jobs[x].video_id, "completed")
                        [] tasks[x].pc = "write_job_failed" ->
                               UpdateJobsByVideo(jobs[x].video_id, "failed")
                        [] OTHER -> jobs
            /\ videos' =
                 IF ~committed THEN videos
                 ELSE CASE tasks[x].pc = "write_video_completed" ->
                               UpdateVideoById(jobs[x].video_id, "completed")
                        [] tasks[x].pc = "write_video_failed" ->
                               UpdateVideoById(jobs[x].video_id, "failed")
                        [] OTHER -> videos

\* cancel_download: UPDATE job_queue SET status = 'failed' WHERE video_id = x
CancelWriteJobs ==
    /\ cancel_op.pc = "write_jobs"
    /\ jobs' = UpdateJobsByVideo(cancel_op.video_id, "failed")
    /\ cancel_op' = [cancel_op EXCEPT !.pc = "write_video"]
    /\ UNCHANGED <<videos, tasks, permits, active_downloads,
                   active_tasks>>

\* cancel_download: UPDATE videos SET download_status = 'failed' WHERE id = x
CancelWriteVideo ==
    /\ cancel_op.pc = "write_video"
    /\ videos' = UpdateVideoById(cancel_op.video_id, "failed")
    /\ cancel_op' = [pc |-> "idle", video_id |-> 0]
    /\ UNCHANGED <<jobs, tasks, permits, active_downloads,
                   active_tasks>>

JobInit ==
    /\ videos = <<>>
    /\ jobs = <<>>
    /\ tasks = <<>>
    /\ permits = [d \in Downloaders |-> MAX_CONCURRENT_DOWNLOADS]
    /\ active_downloads = [d \in Downloaders |-> {}]
    /\ active_tasks = [d \in Downloaders |-> {}]
    /\ cancel_op = [pc |-> "idle", video_id |-> 0]


(***************************************************************************)
(* scheduler.py: SubscriptionScheduler._check_subscription                 *)
(***************************************************************************)

SubscriptionIds == {1, 2}

\* the rows of table subscriptions the runs read
Subscription(s) ==
    IF s = 1
    THEN [content_types |-> {"video"}, latest_n_videos |-> 2, auto_download |-> TRUE]
    ELSE [content_types |-> {"video", "short", "live"}, latest_n_videos |-> 2,
          auto_download |-> FALSE]

\* at most MaxFirings firings of the cron triggers
MaxFirings == 2

ShortEntry(id) ==
    [id |-> id, is_live |-> FALSE, live_status |-> "", width |-> 480, height |-> 854,
     duration |-> 30]
VideoEntry(id) ==
    [id |-> id, is_live |-> FALSE, live_status |-> "", width |-> 1920, height |-> 1080,
     duration |-> 600]
LiveEntry(id) ==
    [id |-> id, is_live |-> TRUE, live_status |-> "is_live", width |-> 1920,
     height |-> 1080, duration |-> 0]

\* what extract_info returns: a collection carries 'entries' (id "" is an entry
\* without id), a single item carries its own fields and no 'entries' key
FeedIds == {"alternating", "repeated", "mixed", "empty", "single"}
PlaylistInfo(entries) ==
    [_type |-> "playlist", has_entries |-> TRUE, entries |-> entries, id |-> "PL"]
SingleVideoInfo(id) ==
    [_type |-> "video", has_entries |-> FALSE, entries |-> <<>>, id |-> id]
extract_info(f) ==
    CASE f = "alternating" ->
             PlaylistInfo(
                 <<ShortEntry("a0"), VideoEntry("a1"), ShortEntry("a2"), VideoEntry("a3"),
                   ShortEntry("a4"), VideoEntry("a5")>>)
      [] f = "repeated" ->
             PlaylistInfo(<<VideoEntry("a1"), VideoEntry("a1"), VideoEntry("a3")>>)
      [] f = "mixed" -> PlaylistInfo(<<LiveEntry("b0"), VideoEntry(""), VideoEntry("a3")>>)
      [] f = "empty" -> PlaylistInfo(<<>>)
      [] f = "single" -> SingleVideoInfo("a1")
      [] OTHER -> PlaylistInfo(<<>>)

\* _process_subscription_discovery_job: entries of a collection, [info] for a
\* single item with an id
EntriesOfJob(f) ==
    LET info == extract_info(f) IN
    IF info._type = "playlist" \/ info.has_entries
    THEN info.entries
    ELSE IF info.id # "" THEN <<VideoEntry(info.id)>> ELSE <<>>

\* _check_subscription: entries = info.get('entries', [])
Feed(f) == IF extract_info(f).has_entries THEN extract_info(f).entries ELSE <<>>

IdleRun ==
    [pc |-> "idle", feed |-> "none", idx |-> 0, matched |-> <<>>, mi |-> 0,
     video_db_id |-> 0, new_videos |-> 0, errors |-> 0, videos_queued |-> 0,
     videos_filtered |-> 0, event_id |-> 0, stored_at_start |-> {}, created |-> <<>>]

StoredIds == {videos[i].youtube_id : i \in 1..Len(videos)}

\* the bound of the filter loop of _process_subscription_discovery_job
fetch_limit_twice_desired(s) == Subscription(s).latest_n_videos * 2

\* fetch_limit of _check_subscription
fetch_limit(s) ==
    IF Cardinality(Subscription(s).content_types) >= 3
    THEN Subscription(s).latest_n_videos
    ELSE Min(Subscription(s).latest_n_videos * 4, 200)

\* if len(matched_videos) >= desired_count: break
ReachedDesiredCount_off_by_one(matched, s) ==
    Len(matched) > Subscription(s).latest_n_videos

ReachedDesiredCount(matched, s) == Len(matched) >= Subscription(s).latest_n_videos

\* the filter loop from entry i up to its next await, the SELECT of an entry
\* with an id and a wanted type: idx 0 when the loop ends first
RECURSIVE ScanToQuery(_, _, _, _)
ScanToQuery(s, entries, i, filtered) ==
    IF i > Min(Len(entries), fetch_limit(s))
    THEN [idx |-> 0, videos_filtered |-> filtered]
    ELSE IF entries[i].id = ""
    THEN ScanToQuery(s, entries, i + 1, filtered)
    ELSE IF classify_video_type(entries[i]) \notin Subscription(s).content_types
    THEN ScanToQuery(s, entries, i + 1, filtered + 1)
    ELSE [idx |-> i, videos_filtered |-> filtered]

\* matched_videos[:desired_count]
MatchedToInsert(s, matched) ==
    SubSeq(matched, 1, Min(Len(matched), Subscription(s).latest_n_videos))

\* the filter loop is over: the insert loop up to its first await
BeginInsertLoop(s, r) ==
    IF MatchedToInsert(s, r.matched) = <<>>
    THEN [r EXCEPT !.pc = "update_subscription", !.idx = 0]
    ELSE [r EXCEPT !.pc = "insert_video", !.idx = 0, !.mi = 1]

\* the filter loop goes on from entry i
ContinueFilterLoop(s, r, i) ==
    LET res == ScanToQuery(s, Feed(r.feed), i, r.videos_filtered) IN
    IF res.idx = 0
    THEN BeginInsertLoop(s, [r EXCEPT !.videos_filtered = res.videos_filtered])
    ELSE [r EXCEPT !.pc = "check_existing", !.idx = res.idx,
                   !.videos_filtered = res.videos_filtered]

\* the insert loop moves to its next matched entry, or ends
NextMatched(s, r) ==
    IF r.mi < Len(MatchedToInsert(s, r.matched))
    THEN [r EXCEPT !.pc = "insert_video", !.mi = r.mi + 1]
    ELSE [r EXCEPT !.pc = "update_subscription"]

NewEvent(s) ==
    [subscription_id |-> s, event_type |-> "check_started", status |-> "success",
     completed |-> FALSE, videos_found |-> 0, videos_added |-> 0,
     videos_queued |-> 0, videos_filtered |-> 0, error_count |-> 0]

\* the cron trigger of subscription s fires (max_instances=1: not while its
\* previous run is in flight): INSERT INTO scheduler_events
Fire(s) ==
    /\ run[s].pc \in {"idle", "done"}
    /\ Len(events) < MaxFirings
    /\ events' = Append(events, NewEvent(s))
    /\ run' = [run EXCEPT ![s] = [IdleRun EXCEPT !.pc = "select_subscription",
                                                 !.event_id = Len(events) + 1]]
    /\ UNCHANGED <<youtube_id_unique, sub_rows, jobVars>>

\* variant of LoadSubscription: a missing or disabled subscription ends the run
\* without completing its event
LoadSubscription_returns_silently(s, found) ==
    /\ run[s].pc = "select_subscription"
    /\ run' = [run EXCEPT ![s].pc = IF found THEN "extract" ELSE "idle"]
    /\ UNCHANGED <<youtube_id_unique, sub_rows, events, jobVars>>

\* SELECT the subscription WHERE id = ? AND enabled = 1
LoadSubscription(s, found) ==
    /\ run[s].pc = "select_subscription"
    /\ run' = [run EXCEPT ![s].pc = IF found THEN "extract" ELSE "complete_failed"]
    /\ UNCHANGED <<youtube_id_unique, sub_rows, events, jobVars>>

\* await self.downloader.extract_info: it raises, or returns the feed f
Extract(s, f) ==
    /\ run[s].pc = "extract"
    /\ run' = [run EXCEPT ![s] =
                 IF f = "raise" THEN [@ EXCEPT !.pc = "complete_failed"]
                 ELSE ContinueFilterLoop(s, [@ EXCEPT !.feed = f,
                                                      !.stored_at_start = StoredIds], 1)]
    /\ UNCHANGED <<youtube_id_unique, sub_rows, events, jobVars>>

\* SELECT id FROM videos WHERE youtube_id = ?
CheckExisting(s) ==
    /\ run[s].pc = "check_existing"
    /\ LET r == run[s]
           existing == Feed(r.feed)[r.idx].id \in StoredIds
           m == IF existing THEN r.matched ELSE Append(r.matched, r.idx)
       IN  run' = [run EXCEPT ![s] =
                     IF ~existing /\ ReachedDesiredCount(m, s)
                     THEN BeginInsertLoop(s, [r EXCEPT !.matched = m])
                     ELSE ContinueFilterLoop(s, [r EXCEPT !.matched = m], r.idx + 1)]
    /\ UNCHANGED <<youtube_id_unique, sub_rows, events, jobVars>>

\* INSERT INTO videos: an IntegrityError under a UNIQUE youtube_id goes to the
\* error list
InsertMatched(s) ==
    /\ run[s].pc = "insert_video"
    /\ LET r == run[s]
           pos == MatchedToInsert(s, r.matched)[r.mi]
           id == Feed(r.feed)[pos].id
       IN  IF youtube_id_unique /\ id \in StoredIds
           THEN /\ run' = [run EXCEPT ![s] = NextMatched(s, [r EXCEPT !.errors = @ + 1])]
                /\ UNCHANGED videos
           ELSE /\ videos' = InsertVideo(id)
                /\ run' = [run EXCEPT ![s] =
                             IF Subscription(s).auto_download
                             THEN [r EXCEPT !.pc = "queue_download",
                                            !.video_db_id = Len(videos) + 1,
                                            !.created = Append(@, pos)]
                             ELSE NextMatched(s, [r EXCEPT !.new_videos = @ + 1,
                                                           !.created = Append(@, pos)])]
    /\ UNCHANGED <<youtube_id_unique, sub_rows, events, jobs, tasks, permits,
                   active_downloads, active_tasks, cancel_op>>

\* await self.downloader.queue_download(video_db_id, priority=1)
QueueMatched(s) ==
    /\ run[s].pc = "queue_download"
    /\ queue_download("scheduler", run[s].video_db_id)
    /\ run' = [run EXCEPT ![s] = NextMatched(s, [@ EXCEPT !.videos_queued = @ + 1,
                                                          !.new_videos = @ + 1])]
    /\ UNCHANGED <<youtube_id_unique, sub_rows, events, videos, permits,
                   active_downloads, cancel_op>>

\* await self.downloader.queue_download raises (its INSERT INTO job_queue
\* fails): the inner handler logs it, nothing is added to errors and the entry
\* is appended to new_videos all the same
QueueMatched_raises(s) ==
    /\ run[s].pc = "queue_download"
    /\ run' = [run EXCEPT ![s] = NextMatched(s, [@ EXCEPT !.new_videos = @ + 1])]
    /\ UNCHANGED <<youtube_id_unique, sub_rows, events, jobVars>>

\* UpdateSubscription that writes the row only after a run that added items
UpdateSubscription_only_when_new(s) ==
    /\ run[s].pc = "update_subscription"
    /\ sub_rows' = IF run[s].new_videos = 0 THEN sub_rows
                   ELSE [sub_rows EXCEPT ![s] = [last_check |-> run[s].event_id,
                                                 new_videos_count |-> run[s].new_videos]]
    /\ run' = [run EXCEPT ![s].pc = "complete"]
    /\ UNCHANGED <<youtube_id_unique, events, jobVars>>

\* UPDATE subscriptions SET last_check = ?, new_videos_count = ?
UpdateSubscription(s) ==
    /\ run[s].pc = "update_subscription"
    /\ sub_rows' = [sub_rows EXCEPT ![s] = [last_check |-> run[s].event_id,
                                            new_videos_count |-> run[s].new_videos]]
    /\ run' = [run EXCEPT ![s].pc = "complete"]
    /\ UNCHANGED <<youtube_id_unique, events, jobVars>>

\* CompleteEvent where a failed run also stamps the subscription as checked
CompleteEvent_stamps_failed_run(s) ==
    /\ run[s].pc \in {"complete", "complete_failed"}
    /\ LET r == run[s] IN
       events' = [events EXCEPT ![r.event_id] =
           IF r.pc = "complete_failed"
           THEN [@ EXCEPT !.event_type = "check_failed", !.status = "failed",
                          !.completed = TRUE]
           ELSE [@ EXCEPT !.event_type = "check_completed",
                          !.status = IF r.errors = 0 THEN "success"
                                     ELSE "partial_success",
                          !.completed = TRUE,
                          !.videos_found = Len(Feed(r.feed)),
                          !.videos_added = r.new_videos,
                          !.videos_queued = r.videos_queued,
                          !.videos_filtered = r.videos_filtered,
                          !.error_count = r.errors]]
    /\ sub_rows' = IF run[s].pc = "complete"
                   THEN sub_rows
                   ELSE [sub_rows EXCEPT ![s] = [last_check |-> run[s].event_id,
                                                 new_videos_count |-> 0]]
    /\ run' = [run EXCEPT ![s].pc = IF @ = "complete" THEN "done" ELSE "idle"]
    /\ UNCHANGED <<youtube_id_unique, jobVars>>

\* _complete_event
CompleteEvent(s) ==
    /\ run[s].pc \in {"complete", "complete_failed"}
    /\ LET r == run[s] IN
       events' = [events EXCEPT ![r.event_id] =
           IF r.pc = "complete_failed"
           THEN [@ EXCEPT !.event_type = "check_failed", !.status = "failed",
                          !.completed = TRUE]
           ELSE [@ EXCEPT !.event_type = "check_completed",
                          !.status = IF r.errors = 0 THEN "success"
                                     ELSE "partial_success",
                          !.completed = TRUE,
                          !.videos_found = Len(Feed(r.feed)),
                          !.videos_added = r.new_videos,
                          !.videos_queued = r.videos_queued,
                          !.videos_filtered = r.videos_filtered,
                          !.error_count = r.errors]]
    /\ run' = [run EXCEPT ![s].pc = IF @ = "complete" THEN "done" ELSE "idle"]
    /\ UNCHANGED <<youtube_id_unique, sub_rows, jobVars>>

SchedInitWith(unique) ==
    /\ youtube_id_unique = unique
    /\ sub_rows = [s \in SubscriptionIds |-> [last_check |-> 0, new_videos_count |-> 0]]
    /\ events = <<>>
    /\ run = [s \in SubscriptionIds |-> IdleRun]

SchedInit == \E unique \in BOOLEAN : SchedInitWith(unique)
\* the scheduler is not constructed
SchedIdle ==
    /\ youtube_id_unique = TRUE
    /\ sub_rows = <<>>
    /\ events = <<>>
    /\ run = <<>>

(***************************************************************************)
(* ytdlp_service.py: the backoff of _run_with_retries under other settings *)
(***************************************************************************)

\* values of YTDLP_MIN_BACKOFF and YTDLP_MAX_BACKOFF an environment may set
MinBackoffs == {0, 1, 2, 3}
MaxBackoffs == {1, 5, 600}

\* an operation computes a backoff at attempts 1..MaxBackoffAttempts
MaxBackoffAttempts == 4

\* the except branch after a transient failure of attempt Len(delays) + 1:
\* the backoff, and what asyncio.sleep gets after the 403/429 multiplier
ComputeDelay(error, mult) ==
    /\ Len(delays) < MaxBackoffAttempts
    /\ ~_is_permanent_error(error)
    /\ LET backoff == BackoffUnder(backoff_settings.min_backoff,
                                   backoff_settings.max_backoff, Len(delays) + 1)
       IN  delays' = Append(delays,
               [backoff |-> backoff,
                slept |-> IF IsBlockingError(error) THEN backoff * mult ELSE backoff])
    /\ UNCHANGED backoff_settings

BkInit ==
    /\ backoff_settings \in [min_backoff : MinBackoffs, max_backoff : MaxBackoffs]
    /\ delays = <<>>

BkIdle ==
    /\ backoff_settings = [min_backoff |-> YTDLP_MIN_BACKOFF,
                           max_backoff |-> YTDLP_MAX_BACKOFF]
    /\ delays = <<>>


(***************************************************************************)
(* Trigger registry: scheduler.py, _schedule_subscription and its callers  *)
(***************************************************************************)

\* a cron expression is the list of its whitespace-separated fields; a field
\* is a number or Star
Star == -1
Hourly == <<0, Star, Star, Star, Star>>
Nightly == <<30, 3, Star, Star, Star>>
FourFields == <<0, Star, Star, Star>>
MinuteOutOfRange == <<61, Star, Star, Star, Star>>
CronExprs == {Hourly, Nightly, FourFields, MinuteOutOfRange}
NoCron == <<>>

\* minute, hour, day of month, month, day of week
FieldMin == <<0, 0, 1, 1, 0>>
FieldMax == <<59, 23, 31, 12, 6>>

\* CronTrigger.from_crontab(expr) returns a trigger (TRUE) or raises ValueError
from_crontab(expr) ==
    /\ Len(expr) = 5
    /\ \A i \in 1..5 :
           expr[i] = Star \/ (FieldMin[i] <= expr[i] /\ expr[i] <= FieldMax[i])

\* self.scheduler.get_job(job_id), as the set of positions holding that id
TriggersOf(js, s) == {i \in 1..Len(js) : js[i].id = s}

\* self.scheduler.remove_job(job_id)
remove_job(js, s) == SelectSeq(js, LAMBDA j : j.id # s)

\* self.scheduler.add_job(..., id=job_id): ConflictingIdError when the id is
\* taken (replace_existing is not passed), caught by the caller's except
add_job(js, s, expr) ==
    IF TriggersOf(js, s) # {} THEN js ELSE Append(js, [id |-> s, cron |-> expr])

\* variant of Scheduled: the existing job is not removed before add_job
Scheduled_without_removal(js, s, expr) ==
    IF from_crontab(expr) THEN add_job(js, s, expr) ELSE js

\* the jobs after SubscriptionScheduler._schedule_subscription(s, expr)
Scheduled(js, s, expr) ==
    IF from_crontab(expr)
    THEN add_job(IF TriggersOf(js, s) # {} THEN remove_job(js, s) ELSE js, s, expr)
    ELSE js

_schedule_subscription(op, s, expr) ==
    /\ sched_jobs' = Scheduled(sched_jobs, s, expr)
    /\ accepted' = IF from_crontab(expr) THEN [accepted EXCEPT ![s] = expr]
                   ELSE accepted
    /\ last_call' = [op |-> op, id |-> s, cron |-> expr, outcome |-> "returned"]

add_subscription(s, expr) == _schedule_subscription("add", s, expr)

update_subscription(s, expr) == _schedule_subscription("update", s, expr)

remove_subscription(s) ==
    /\ sched_jobs' = IF TriggersOf(sched_jobs, s) # {} THEN remove_job(sched_jobs, s)
                     ELSE sched_jobs
    /\ accepted' = [accepted EXCEPT ![s] = NoCron]
    /\ last_call' = [op |-> "remove", id |-> s, cron |-> NoCron, outcome |-> "returned"]

NoCall == [op |-> "none", id |-> 0, cron |-> NoCron, outcome |-> "none"]

TrigInit ==
    /\ sched_jobs = <<>>
    /\ accepted = [s \in SubscriptionIds |-> NoCron]
    /\ last_call = NoCall

\* the scheduler is not constructed
TrigIdle ==
    /\ sched_jobs = <<>>
    /\ accepted = <<>>
    /\ last_call = <<>>

(***************************************************************************)
(* Subscription endpoints: api/endpoints/subscriptions.py with the         *)
(* request schemas of models/subscription.py.  A request is a coroutine;   *)
(* its steps are its database statements and its scheduler calls.          *)
(***************************************************************************)

Handlers == {1, 2}
MaxRequests == 3

\* a content_types value: absent from the body, JSON null, or a list
UnsetCt == [kind |-> "unset", items |-> <<>>]
NullCt == [kind |-> "null", items |-> <<>>]
ListCt(items) == [kind |-> "list", items |-> items]

\* a request body: enabled is "unset", "true" or "false"; an absent
\* check_frequency is NoCron
Body(enabled, check_frequency, content_types) ==
    [enabled |-> enabled, check_frequency |-> check_frequency,
     content_types |-> content_types]
NoBody == Body("unset", NoCron, UnsetCt)

CreateBodies ==
    {Body("true", Hourly, ListCt(<<"video">>)),
     Body("true", MinuteOutOfRange, ListCt(<<"video">>)),
     Body("true", FourFields, ListCt(<<"video">>)),
     Body("true", Hourly, ListCt(<<>>))}

UpdateBodies ==
    {Body("true", NoCron, UnsetCt),
     Body("false", NoCron, UnsetCt),
     Body("unset", Nightly, UnsetCt),
     Body("unset", FourFields, UnsetCt),
     Body("unset", NoCron, ListCt(<<"short">>)),
     Body("unset", NoCron, ListCt(<<>>)),
     Body("unset", NoCron, NullCt)}

\* bodies whose cron expressions CronTrigger.from_crontab parses
ParseableCreateBodies ==
    {Body("true", Hourly, ListCt(<<"video">>)),
     Body("false", Nightly, ListCt(<<"video">>))}
ParseableUpdateBodies ==
    {Body("true", NoCron, UnsetCt),
     Body("false", NoCron, UnsetCt),
     Body("unset", Nightly, UnsetCt),
     Body("unset", NoCron, ListCt(<<"short">>))}

\* validate_cron: len(v.split()) == 5
validate_cron(v) == Len(v) = 5

\* SubscriptionCreate: content_types is List[VideoType] (null is no list),
\* validate_content_types raises on an empty list
SubscriptionCreate(body) ==
    /\ validate_cron(body.check_frequency)
    /\ body.content_types.kind = "list"
    /\ body.content_types.items # <<>>

\* SubscriptionUpdate: every field Optional; validate_content_types looks at
\* the value only when it is not None; check_frequency has no validator
SubscriptionUpdate(body) ==
    body.content_types.kind = "list" => body.content_types.items # <<>>

Row(enabled, check_frequency, content_types) ==
    [exists |-> TRUE, enabled |-> enabled, check_frequency |-> check_frequency,
     content_types |-> content_types]
NoRow ==
    [exists |-> FALSE, enabled |-> FALSE, check_frequency |-> NoCron,
     content_types |-> NullCt]

FreeReq ==
    [op |-> "none", id |-> 0, pc |-> "free", body |-> NoBody, local |-> NoRow,
     response |-> 0]

\* every request that arrived has been answered
Quiescent == \A h \in Handlers : reqs[h].pc \in {"free", "done"}

Finish(h, code) == [reqs EXCEPT ![h].pc = "done", ![h].response = code]
Goto(h, pc) == [reqs EXCEPT ![h].pc = pc]

\* a request arrives: the body is validated before the handler runs (422)
Request(h, op, id, body) ==
    /\ reqs[h].pc \in {"free", "done"}
    /\ started < MaxRequests
    /\ started' = started + 1
    /\ LET r == [FreeReq EXCEPT !.op = op, !.id = id, !.body = body]
       IN  reqs' = [reqs EXCEPT ![h] =
               IF op = "update" /\ ~SubscriptionUpdate(body)
               THEN [r EXCEPT !.pc = "done", !.response = 422]
               ELSE [r EXCEPT !.pc = "select_existing"]]
    /\ UNCHANGED <<sub_table, next_id, content_types_nullable, trigVars>>

\* POST /subscriptions: the id is the one the INSERT will return
CreateRequest(h, body) ==
    /\ reqs[h].pc \in {"free", "done"}
    /\ started < MaxRequests
    /\ next_id \in SubscriptionIds
    /\ started' = started + 1
    /\ LET r == [FreeReq EXCEPT !.op = "create", !.body = body]
       IN  IF SubscriptionCreate(body)
           THEN /\ reqs' = [reqs EXCEPT ![h] = [r EXCEPT !.pc = "insert_row",
                                                          !.id = next_id]]
                /\ next_id' = next_id + 1
           ELSE /\ reqs' = [reqs EXCEPT ![h] = [r EXCEPT !.pc = "done",
                                                          !.response = 422]]
                /\ UNCHANGED next_id
    /\ UNCHANGED <<sub_table, content_types_nullable, trigVars>>

\* subscription_id = await db.insert("subscriptions", sub_data)
Create_InsertRow(h) ==
    /\ reqs[h].pc = "insert_row"
    /\ sub_table' = [sub_table EXCEPT ![reqs[h].id] =
           Row(reqs[h].body.enabled = "true", reqs[h].body.check_frequency,
               reqs[h].body.content_types)]
    /\ reqs' = IF reqs[h].body.enabled = "true" THEN Goto(h, "register")
               ELSE Finish(h, 200)
    /\ UNCHANGED <<next_id, content_types_nullable, started, trigVars>>

\* await scheduler.add_subscription(subscription_id, check_frequency)
Create_Register(h) ==
    /\ reqs[h].pc = "register"
    /\ reqs[h].op = "create"
    /\ add_subscription(reqs[h].id, reqs[h].body.check_frequency)
    /\ reqs' = Finish(h, 200)
    /\ UNCHANGED <<sub_table, next_id, content_types_nullable, started>>

\* SELECT id FROM subscriptions WHERE id = ?  (404 when there is none)
SelectExisting(h) ==
    /\ reqs[h].pc = "select_existing"
    /\ reqs' = IF ~sub_table[reqs[h].id].exists THEN Finish(h, 404)
               ELSE Goto(h, CASE reqs[h].op = "update" -> "update_row"
                              [] reqs[h].op = "delete" -> "deregister"
                              [] reqs[h].op = "pause" -> "deregister"
                              [] reqs[h].op = "resume" -> "enable_row")
    /\ UNCHANGED <<sub_table, next_id, content_types_nullable, started, trigVars>>

\* the row after UPDATE subscriptions SET <the fields of the body>
Updated(row, body) ==
    [row EXCEPT
        !.enabled = IF body.enabled = "unset" THEN @ ELSE body.enabled = "true",
        !.check_frequency = IF body.check_frequency = NoCron THEN @
                            ELSE body.check_frequency,
        !.content_types = IF body.content_types.kind = "unset" THEN @
                          ELSE body.content_types]

\* await db.update("subscriptions", update_data, "id = ?", ...): a NULL for a
\* NOT NULL column raises (500); a row deleted meanwhile is not updated
Update_UpdateRow(h) ==
    /\ reqs[h].pc = "update_row"
    /\ LET body == reqs[h].body
           id == reqs[h].id
           rejected == /\ sub_table[id].exists
                       /\ body.content_types.kind = "null"
                       /\ ~content_types_nullable
       IN  /\ sub_table' = IF sub_table[id].exists /\ ~rejected
                           THEN [sub_table EXCEPT ![id] = Updated(@, body)]
                           ELSE sub_table
           /\ reqs' = IF rejected THEN Finish(h, 500)
                      ELSE IF body.enabled # "unset" \/ body.check_frequency # NoCron
                      THEN Goto(h, "select_updated")
                      ELSE Finish(h, 200)
    /\ UNCHANGED <<next_id, content_types_nullable, started, trigVars>>

\* SELECT enabled, check_frequency FROM subscriptions WHERE id = ?
Update_SelectUpdated(h) ==
    /\ reqs[h].pc = "select_updated"
    /\ reqs' = IF sub_table[reqs[h].id].exists
               THEN [reqs EXCEPT ![h].pc = "reschedule",
                                 ![h].local = sub_table[reqs[h].id]]
               ELSE Finish(h, 200)
    /\ UNCHANGED <<sub_table, next_id, content_types_nullable, started, trigVars>>

\* Update_Reschedule that does not look at the enabled flag
Update_Reschedule_ignores_enabled(h) ==
    /\ reqs[h].pc = "reschedule"
    /\ update_subscription(reqs[h].id, reqs[h].local.check_frequency)
    /\ reqs' = Finish(h, 200)
    /\ UNCHANGED <<sub_table, next_id, content_types_nullable, started>>

\* scheduler.update_subscription or scheduler.remove_subscription, by the
\* enabled flag that was read
Update_Reschedule(h) ==
    /\ reqs[h].pc = "reschedule"
    /\ IF reqs[h].local.enabled
       THEN update_subscription(reqs[h].id, reqs[h].local.check_frequency)
       ELSE remove_subscription(reqs[h].id)
    /\ reqs' = Finish(h, 200)
    /\ UNCHANGED <<sub_table, next_id, content_types_nullable, started>>

\* await scheduler.remove_subscription(subscription_id), of delete and pause
Deregister(h) ==
    /\ reqs[h].pc = "deregister"
    /\ remove_subscription(reqs[h].id)
    /\ reqs' = Goto(h, IF reqs[h].op = "delete" THEN "delete_row" ELSE "disable_row")
    /\ UNCHANGED <<sub_table, next_id, content_types_nullable, started>>

\* await db.delete("subscriptions", "id = ?", ...)
Delete_DeleteRow(h) ==
    /\ reqs[h].pc = "delete_row"
    /\ sub_table' = [sub_table EXCEPT ![reqs[h].id] = NoRow]
    /\ reqs' = Finish(h, 200)
    /\ UNCHANGED <<next_id, content_types_nullable, started, trigVars>>

\* await db.update("subscriptions", {"enabled": False}, ...)
Pause_DisableRow(h) ==
    /\ reqs[h].pc = "disable_row"
    /\ sub_table' = [sub_table EXCEPT ![reqs[h].id] =
                        IF @.exists THEN [@ EXCEPT !.enabled = FALSE] ELSE @]
    /\ reqs' = Finish(h, 200)
    /\ UNCHANGED <<next_id, content_types_nullable, started, trigVars>>

\* await db.update("subscriptions", {"enabled": True}, ...)
Resume_EnableRow(h) ==
    /\ reqs[h].pc = "enable_row"
    /\ sub_table' = [sub_table EXCEPT ![reqs[h].id] =
                        IF @.exists THEN [@ EXCEPT !.enabled = TRUE] ELSE @]
    /\ reqs' = Goto(h, "select_frequency")
    /\ UNCHANGED <<next_id, content_types_nullable, started, trigVars>>

\* SELECT check_frequency FROM subscriptions WHERE id = ?
Resume_SelectFrequency(h) ==
    /\ reqs[h].pc = "select_frequency"
    /\ reqs' = IF sub_table[reqs[h].id].exists
               THEN [reqs EXCEPT ![h].pc = "register",
                                 ![h].local = sub_table[reqs[h].id]]
               ELSE Finish(h, 200)
    /\ UNCHANGED <<sub_table, next_id, content_types_nullable, started, trigVars>>

\* await scheduler.add_subscription(subscription_id, subscription['check_frequency'])
Resume_Register(h) ==
    /\ reqs[h].pc = "register"
    /\ reqs[h].op = "resume"
    /\ add_subscription(reqs[h].id, reqs[h].local.check_frequency)
    /\ reqs' = Finish(h, 200)
    /\ UNCHANGED <<sub_table, next_id, content_types_nullable, started>>

\* subscription 1 exists, enabled and scheduled by SubscriptionScheduler.start;
\* the schema's column content_types accepts NULL or not
SubInit ==
    /\ sub_table = [s \in SubscriptionIds |->
                       IF s = 1 THEN Row(TRUE, Hourly, ListCt(<<"video">>)) ELSE NoRow]
    /\ reqs = [h \in Handlers |-> FreeReq]
    /\ next_id = 2
    /\ content_types_nullable \in BOOLEAN
    /\ started = 0

\* no request is served
SubIdle ==
    /\ sub_table = <<>>
    /\ reqs = <<>>
    /\ next_id = 0
    /\ content_types_nullable = TRUE
    /\ started = 0

\* the registry after _load_subscriptions of the rows of SubInit
TrigLoaded ==
    /\ sched_jobs = <<[id |-> 1, cron |-> Hourly]>>
    /\ accepted = [s \in SubscriptionIds |-> IF s = 1 THEN Hourly ELSE NoCron]
    /\ last_call = NoCall


NoRetry == [op |-> "none", download_id |-> 0, response |-> 0]
RetryIdle == download_queue_table = TRUE /\ retry_call = NoRetry

RetryInit == download_queue_table \in BOOLEAN /\ retry_call = NoRetry

\* the rows of table download_queue: no statement of the program inserts into
\* it (the job rows are written to job_queue)
download_queue == {}

\* downloads.py retry_download: SELECT * FROM download_queue WHERE id = ?
\* raises without the table (500); no row answers 404 before any write.
\* The request names the id of a job of job_queue.
retry_download(download_id) ==
    /\ download_id \in 1..Len(jobs)
    /\ retry_call' =
           [op |-> "retry_download", download_id |-> download_id,
            response |-> IF ~download_queue_table THEN 500
                         ELSE IF download_id \notin download_queue THEN 404
                         ELSE 200]
    /\ UNCHANGED <<download_queue_table, jobVars>>

\* downloads.py retry_all_failed: SELECT * FROM download_queue WHERE status =
\* 'failed' raises without the table; with it the loop runs over no row
retry_all_failed ==
    /\ Len(jobs) > 0
    /\ retry_call' =
           [op |-> "retry_all_failed", download_id |-> 0,
            response |-> IF ~download_queue_table THEN 500 ELSE 200]
    /\ UNCHANGED <<download_queue_table, jobVars>>

(***************************************************************************)
(* recovery.py: RecoveryManager                                            *)
(***************************************************************************)

\* at most MaxScans calls of scan_and_recover
MaxScans == 2

\* a sidecar file that is absent, a directory name that matches no pattern
NoFile == "no_file"
NoMatch == "no_match"
\* _extract_video_info raised: the directory is skipped with a logged warning
Raised == "raised"

\* a channel directory: the id of its channel_info.json, the id its name
\* parses to, and its subdirectories
ChannelDir(info_id, name_id, video_dirs) ==
    [info_id |-> info_id, name_id |-> name_id, video_dirs |-> video_dirs]

\* a video directory: the youtube_id of its app metadata, the id of its
\* info.json, the id its name parses to, and whether it holds a video file
VideoDir(app_id, info_id, name_id, has_file) ==
    [app_id |-> app_id, info_id |-> info_id, name_id |-> name_id,
     has_file |-> has_file, listable |-> TRUE]

\* a video directory whose sidecar files can be opened but whose listing
\* (iterdir in _find_video_file) raises
UnlistableDir(app_id, info_id, name_id) ==
    [app_id |-> app_id, info_id |-> info_id, name_id |-> name_id,
     has_file |-> FALSE, listable |-> FALSE]

ArchiveIds == {"one", "twins", "repeat", "stray", "shared", "empty", "locked"}
Archive(a) ==
    CASE a = "one" ->
             <<ChannelDir("UC1", "UC1", <<VideoDir("v1", NoFile, "v1", TRUE),
                                          VideoDir(NoFile, NoFile, "v2", FALSE)>>)>>
      [] a = "twins" ->
             <<ChannelDir("UC1", NoMatch, <<VideoDir("v1", NoFile, "v1", TRUE)>>),
               ChannelDir(NoFile, "UC1", <<VideoDir(NoFile, "v2", "v2", TRUE)>>)>>
      [] a = "repeat" ->
             <<ChannelDir(NoFile, "UC2", <<VideoDir(NoFile, "v1", NoMatch, TRUE),
                                           VideoDir(NoFile, NoFile, "v1", FALSE)>>)>>
      [] a = "stray" ->
             <<ChannelDir(NoFile, NoMatch, <<VideoDir("v3", NoFile, "v3", TRUE)>>),
               ChannelDir(NoFile, "UC2", <<VideoDir(NoFile, NoFile, NoMatch, TRUE),
                                           VideoDir("v3", NoFile, NoMatch, TRUE)>>)>>
      [] a = "shared" ->
             <<ChannelDir("UC1", "UC1", <<VideoDir("v1", NoFile, "v1", TRUE)>>),
               ChannelDir("UC2", "UC2", <<VideoDir(NoFile, "v1", "v1", FALSE),
                                          VideoDir(NoFile, NoFile, "v2", TRUE)>>)>>
      [] a = "empty" -> <<>>
      [] a = "locked" ->
             <<ChannelDir("UC1", "UC1", <<UnlistableDir("v1", NoFile, "v1"),
                                          VideoDir(NoFile, "v2", "v2", TRUE)>>),
               ChannelDir(NoFile, "UC2", <<UnlistableDir(NoFile, NoFile, NoMatch),
                                           VideoDir("v3", NoFile, "v3", TRUE)>>)>>
      [] OTHER -> <<>>

\* _extract_video_info: app metadata, else info.json, else the directory
\* name; None (NoMatch) when none of them resolves. _find_video_file is
\* called inside the try blocks of the first two and outside any in the
\* third: an unlistable directory falls through to its name and raises there.
_extract_video_info(video_dir) ==
    LET id == IF ~video_dir.listable
              THEN (IF video_dir.name_id # NoMatch THEN Raised ELSE NoMatch)
              ELSE IF video_dir.app_id # NoFile THEN video_dir.app_id
              ELSE IF video_dir.info_id # NoFile THEN video_dir.info_id
              ELSE video_dir.name_id
    IN  [youtube_id |-> id, has_file |-> video_dir.has_file]

\* _discover_channel_videos: the video infos of the subdirectories that resolve
_discover_channel_videos(channel_dir) ==
    LET infos == [i \in 1..Len(channel_dir.video_dirs) |->
                     _extract_video_info(channel_dir.video_dirs[i])]
    IN  SelectSeq(infos, LAMBDA info : info.youtube_id \notin {NoMatch, Raised})

\* _extract_channel_info: channel_info.json, else the directory name
_extract_channel_info(channel_dir) ==
    IF channel_dir.info_id # NoFile THEN channel_dir.info_id ELSE channel_dir.name_id

\* discovered['channels'][youtube_id] = channel_info: a dict, listed in the
\* order of its keys' first insertion
DictPut(dict, info) ==
    IF \E i \in 1..Len(dict) : dict[i].youtube_id = info.youtube_id
    THEN [i \in 1..Len(dict) |->
             IF dict[i].youtube_id = info.youtube_id THEN info ELSE dict[i]]
    ELSE Append(dict, info)

\* _discover_storage_structure over the first n channel directories
RECURSIVE _discover_storage_structure(_, _)
_discover_storage_structure(dirs, n) ==
    IF n = 0 THEN <<>>
    ELSE LET before == _discover_storage_structure(dirs, n - 1)
             id == _extract_channel_info(dirs[n])
         IN  IF id = NoMatch THEN before
             ELSE DictPut(before, [youtube_id |-> id,
                                   videos |-> _discover_channel_videos(dirs[n])])

\* SELECT id FROM <table> WHERE youtube_id = ?: the first row, 0 for none
SelectByYoutubeId(table, youtube_id) ==
    IF \E i \in 1..Len(table) : table[i].youtube_id = youtube_id
    THEN CHOOSE i \in 1..Len(table) :
             /\ table[i].youtube_id = youtube_id
             /\ \A k \in 1..(i - 1) : table[k].youtube_id # youtube_id
    ELSE 0

NoResult ==
    [channels_discovered |-> 0, channels_created |-> 0, channels_updated |-> 0,
     videos_discovered |-> 0, videos_created |-> 0, videos_updated |-> 0,
     errors |-> <<>>]

RECURSIVE CountVideos(_, _)
CountVideos(discovered, n) ==
    IF n = 0 THEN 0 ELSE CountVideos(discovered, n - 1) + Len(discovered[n].videos)

IdleScan ==
    [pc |-> "idle", discovered |-> <<>>, ci |-> 0, vi |-> 0, channel_id |-> 0,
     result |-> NoResult, channels_before |-> <<>>, videos_before |-> <<>>]

\* the loops of scan_and_recover move on: the next video of the channel, else
\* the next channel, else the scan returns its result
NextVideo(sc) ==
    IF sc.vi < Len(sc.discovered[sc.ci].videos)
    THEN [sc EXCEPT !.pc = "process_video", !.vi = sc.vi + 1]
    ELSE IF sc.ci < Len(sc.discovered)
    THEN [sc EXCEPT !.pc = "process_channel", !.ci = sc.ci + 1, !.vi = 0]
    ELSE [sc EXCEPT !.pc = "returned"]

\* scan_and_recover is called: _discover_storage_structure and the counts of
\* what it found. No condition on the store comes before it.
scan_and_recover ==
    /\ scan.pc \in {"idle", "returned"}
    /\ scans_run < MaxScans
    /\ scans_run' = scans_run + 1
    /\ LET discovered == _discover_storage_structure(archive, Len(archive))
           sc == [IdleScan EXCEPT
                      !.discovered = discovered,
                      !.result = [NoResult EXCEPT
                          !.channels_discovered = Len(discovered),
                          !.videos_discovered = CountVideos(discovered, Len(discovered))],
                      !.channels_before = channels,
                      !.videos_before = video_rows]
       IN  scan' = IF discovered = <<>> THEN [sc EXCEPT !.pc = "returned"]
                   ELSE [sc EXCEPT !.pc = "process_channel", !.ci = 1]
    /\ UNCHANGED <<archive, channels, video_rows>>

\* _process_channel and the counting after it: SELECT by youtube_id, then
\* UPDATE ... WHERE id = ? (updated_at = now) or INSERT
_process_channel ==
    /\ scan.pc = "process_channel"
    /\ LET info == scan.discovered[scan.ci]
           existing == SelectByYoutubeId(channels, info.youtube_id)
       IN  IF existing # 0
           THEN /\ channels' = [channels EXCEPT ![existing].updated_at = scans_run]
                /\ scan' = NextVideo([scan EXCEPT !.channel_id = existing,
                                                  !.result.channels_updated = @ + 1])
           ELSE /\ channels' = Append(channels, [youtube_id |-> info.youtube_id,
                                                 updated_at |-> scans_run])
                /\ scan' = NextVideo([scan EXCEPT !.channel_id = Len(channels) + 1,
                                                  !.result.channels_created = @ + 1])
    /\ UNCHANGED <<archive, video_rows, scans_run>>

\* _process_video and the counting after it: SELECT by youtube_id, then UPDATE
\* ... WHERE id = ? or INSERT; download_status follows file_path
_process_video ==
    /\ scan.pc = "process_video"
    /\ LET info == scan.discovered[scan.ci].videos[scan.vi]
           existing == SelectByYoutubeId(video_rows, info.youtube_id)
           video_data == [youtube_id |-> info.youtube_id,
                          channel_id |-> scan.channel_id,
                          download_status |-> IF info.has_file THEN "completed"
                                              ELSE "pending",
                          updated_at |-> scans_run]
       IN  IF existing # 0
           THEN /\ video_rows' = [video_rows EXCEPT ![existing] = video_data]
                /\ scan' = NextVideo([scan EXCEPT !.result.videos_updated = @ + 1])
           ELSE /\ video_rows' = Append(video_rows, video_data)
                /\ scan' = NextVideo([scan EXCEPT !.result.videos_created = @ + 1])
    /\ UNCHANGED <<archive, channels, scans_run>>

NextChannel_aborts(sc) == [sc EXCEPT !.pc = "returned"]

\* the loop over the channels moves on without the videos of this channel
NextChannel(sc) ==
    IF sc.ci < Len(sc.discovered)
    THEN [sc EXCEPT !.pc = "process_channel", !.ci = sc.ci + 1, !.vi = 0]
    ELSE [sc EXCEPT !.pc = "returned"]

\* a statement of _process_channel raises: the handler around the channel
\* appends to result.errors, and the loop goes to the next channel
_process_channel_raises ==
    /\ scan.pc = "process_channel"
    /\ scan' = NextChannel([scan EXCEPT !.result.errors =
                    Append(@, [kind |-> "channel",
                               youtube_id |-> scan.discovered[scan.ci].youtube_id])])
    /\ UNCHANGED <<archive, channels, video_rows, scans_run>>

\* a statement of _process_video raises: the handler around the video appends
\* to result.errors, and the loop goes to the next video
_process_video_raises ==
    /\ scan.pc = "process_video"
    /\ scan' = NextVideo([scan EXCEPT !.result.errors =
                    Append(@, [kind |-> "video",
                               youtube_id |->
                                   scan.discovered[scan.ci].videos[scan.vi].youtube_id])])
    /\ UNCHANGED <<archive, channels, video_rows, scans_run>>

\* the stores a scan can meet: an empty one, and one with a channel and a
\* failed item of earlier use
StoredChannels == <<[youtube_id |-> "UC1", updated_at |-> 0]>>
StoredVideos ==
    <<[youtube_id |-> "v1", channel_id |-> 1, download_status |-> "failed",
       updated_at |-> 0]>>

RecInit ==
    /\ archive \in {Archive(a) : a \in ArchiveIds}
    /\ \/ channels = <<>> /\ video_rows = <<>>
       \/ channels = StoredChannels /\ video_rows = <<>>
       \/ channels = StoredChannels /\ video_rows = StoredVideos
    /\ scans_run = 0
    /\ scan = IdleScan

\* no RecoveryManager is constructed
RecIdle ==
    /\ archive = <<>>
    /\ channels = <<>>
    /\ video_rows = <<>>
    /\ scans_run = 0
    /\ scan = <<>>

(***************************************************************************)
(* downloader.py: the order of admission.  asyncio.Semaphore keeps its      *)
(* waiters in the order of their acquire calls and release wakes the first. *)
(***************************************************************************)

\* at most MaxPriorityJobs download requests
MaxPriorityJobs == 4

\* VideoDownloadRequest.priority, of which the requests use two values
Priorities == {1, 5}

\* pending items of earlier discovery runs, one per request
PendingVideos ==
    [v \in 1..MaxPriorityJobs |->
        [youtube_id |-> YoutubeIdPool[v], download_status |-> "pending"]]

\* videos.py queue_video_download with download_request.priority: the row of
\* the job gets the priority, the task is created as for every job
queue_video_download_with_priority(video_id, priority) ==
    /\ Len(jobs) < MaxPriorityJobs
    /\ VideoExists(video_id)
    /\ queue_download("api", video_id)
    /\ job_priority' = Append(job_priority, priority)
    /\ UNCHANGED <<videos, permits, active_downloads, cancel_op, waiters>>

\* SelectVideo; a task that finds no permit appends itself to the waiters
SelectVideo_or_wait(j) ==
    /\ SelectVideo(j)
    /\ waiters' = IF VideoExists(jobs[j].video_id) /\ ~CanAcquire(tasks[j].owner)
                  THEN Append(waiters, j) ELSE waiters
    /\ UNCHANGED job_priority

\* release woke the first waiter: it takes the permit
Admit_first_waiter(j) ==
    /\ waiters # <<>>
    /\ j = Head(waiters)
    /\ Admit(j)
    /\ waiters' = Tail(waiters)
    /\ UNCHANGED job_priority

\* no request with a priority was made
PrioIdle == job_priority = <<>> /\ waiters = <<>>
(***************************************************************************)
(* downloader.py: DownloadProgress and the progress column                  *)
(***************************************************************************)

MaxProgressJobs == 3
\* at most MaxRetries attempts of all downloads together are repeated
MaxRetries == 1

\* DownloadProgress.update: the value of self.progress after the hook call
\* with d['status'], 'downloading' reporting 40 of 100 bytes
update(p, d) ==
    CASE d = "downloading" -> 40
      [] d = "finished" -> 100
      [] OTHER -> p

RECURSIVE ProgressAfter(_, _)
ProgressAfter(p, hooks) ==
    IF hooks = <<>> THEN p ELSE ProgressAfter(update(p, Head(hooks)), Tail(hooks))

\* the hook calls of one ydl.download([url]): a download that ends well reports
\* 'finished' last, one that raises stops anywhere before
HooksOfSuccess == {<<"downloading", "finished">>}
HooksOfFailure == {<<"downloading">>, <<"error">>}

\* the item of the n-th download request: the first two ask for the same item
RequestedItem(n) == IF n <= 2 THEN 1 ELSE n - 1

\* queue_download: the row starts with progress 0.0; DownloadProgress.__init__
QueueProgress ==
    /\ job_progress' = Append(job_progress, 0)
    /\ progress' = Append(progress, 0)
    /\ callbacks' = Append(callbacks, 0)
    /\ attempts' = Append(attempts, 0)

\* the attempts of all downloads that followed a failed one
RECURSIVE RepeatedAttempts(_)
RepeatedAttempts(j) ==
    IF j = 0 THEN 0
    ELSE (IF attempts[j] > 1 THEN attempts[j] - 1 ELSE 0) + RepeatedAttempts(j - 1)

\* one attempt of download_with_progress: ydl.download runs inside the
\* coroutine, so the event loop does nothing else until it returns; each hook
\* call sets progress.progress and schedules one _update_progress_db_async
\* with run_coroutine_threadsafe. A failure is retried after a sleep or ends
\* the download (permanent error, or no attempt left)
DownloadAttempt(j, hooks, ok, again) ==
    /\ tasks[j].pc = "transfer"
    /\ attempts[j] < YTDLP_MAX_RETRIES
    /\ hooks \in (IF ok THEN HooksOfSuccess ELSE HooksOfFailure)
    /\ again => /\ ~ok
                /\ attempts[j] + 1 < YTDLP_MAX_RETRIES
                /\ RepeatedAttempts(Len(attempts)) < MaxRetries
    /\ progress' = [progress EXCEPT ![j] = ProgressAfter(@, hooks)]
    /\ callbacks' = [callbacks EXCEPT ![j] = @ + Len(hooks)]
    /\ attempts' = [attempts EXCEPT ![j] = @ + 1]
    /\ tasks' = SetPc(j, IF ok THEN "write_video_completed"
                         ELSE IF again THEN "transfer" ELSE "write_video_failed")
    /\ UNCHANGED <<videos, jobs, permits, active_downloads, active_tasks, cancel_op,
                   job_progress>>

\* _update_progress_db_async: UPDATE job_queue SET progress = ? WHERE
\* video_id = ?, with progress.progress as it is when the coroutine runs
UpdateProgressDb(j) ==
    /\ callbacks[j] > 0
    /\ callbacks' = [callbacks EXCEPT ![j] = @ - 1]
    /\ job_progress' = [k \in 1..Len(job_progress) |->
                           IF jobs[k].video_id = jobs[j].video_id THEN progress[j]
                           ELSE job_progress[k]]
    /\ UNCHANGED <<jobVars, progress, attempts>>

\* download_video: the last UPDATE of job_queue WHERE video_id = ?, progress
\* 100.0 with status 'completed', the progress column untouched with 'failed'
WriteJobProgress(j) ==
    /\ WriteJob(j)
    /\ job_progress' = [k \in 1..Len(job_progress) |->
                           IF /\ jobs[k].video_id = jobs[j].video_id
                              /\ tasks[j].pc = "write_job_completed"
                           THEN 100 ELSE job_progress[k]]
    /\ UNCHANGED <<progress, callbacks, attempts>>

ProgIdle ==
    /\ job_progress = <<>>
    /\ progress = <<>>
    /\ callbacks = <<>>
    /\ attempts = <<>>

LateIdle == RetryIdle /\ RecIdle /\ PrioIdle /\ ProgIdle
RestIdle == BkIdle /\ TrigIdle /\ SubIdle /\ LateIdle

(***************************************************************************)
(* Specifications                                                          *)
(***************************************************************************)

InitClassify == ClsInit /\ GwInit /\ JobInit /\ SchedIdle /\ RestIdle
NextClassify == Classify /\ UNCHANGED <<gwVars, jobVars, schedVars, restVars>>
SpecClassify == InitClassify /\ [][NextClassify]_vars

InitGateway == ClsIdle /\ GwInit /\ JobInit /\ SchedIdle /\ RestIdle
NextGateway ==
    \/ \E c \in Callers : StartOperation(c) /\ UNCHANGED <<clsVars, jobVars, schedVars, restVars>>
    \/ \E c \in Callers : WakeRateSleep(c) /\ UNCHANGED <<clsVars, jobVars, schedVars, restVars>>
    \/ \E c \in Callers : WakeBackoffSleep(c) /\ UNCHANGED <<clsVars, jobVars, schedVars, restVars>>
    \/ \E c \in Callers : FinishOperation(c) /\ UNCHANGED <<clsVars, jobVars, schedVars, restVars>>
    \/ Tick /\ UNCHANGED <<clsVars, jobVars, schedVars, restVars>>
SpecGateway == InitGateway /\ [][NextGateway]_vars

Init == ClsIdle /\ GwInit /\ JobInit /\ SchedIdle /\ RestIdle
Next ==
    \/ create_video /\ UNCHANGED <<clsVars, gwVars, schedVars, restVars>>
    \/ \E v \in 1..MaxVideos : queue_video_download(v) /\ UNCHANGED <<clsVars, gwVars, schedVars, restVars>>
    \/ \E v \in 1..(Len(videos) + 1) : bulk_download(v) /\ UNCHANGED <<clsVars, gwVars, schedVars, restVars>>
    \/ scheduler_auto_download /\ UNCHANGED <<clsVars, gwVars, schedVars, restVars>>
    \/ \E j \in JobIds : SelectJob(j) /\ UNCHANGED <<clsVars, gwVars, schedVars, restVars>>
    \/ \E j \in JobIds : SelectVideo(j) /\ UNCHANGED <<clsVars, gwVars, schedVars, restVars>>
    \/ \E j \in JobIds : Admit(j) /\ UNCHANGED <<clsVars, gwVars, schedVars, restVars>>
    \/ \E j \in JobIds : MarkDownloading(j) /\ UNCHANGED <<clsVars, gwVars, schedVars, restVars>>
    \/ \E j \in JobIds, ok \in BOOLEAN : TransferEnds(j, ok) /\ UNCHANGED <<clsVars, gwVars, schedVars, restVars>>
    \/ \E j \in JobIds : WriteVideo(j) /\ UNCHANGED <<clsVars, gwVars, schedVars, restVars>>
    \/ \E j \in JobIds : WriteJob(j) /\ UNCHANGED <<clsVars, gwVars, schedVars, restVars>>
Spec == Init /\ [][Next]_vars

\* the download pipeline with the discovery jobs of the manual check and with
\* Downloader.cancel_download, which no endpoint calls
NextJobs ==
    \/ Next
    \/ queue_discovery_job(1) /\ UNCHANGED <<clsVars, gwVars, schedVars, restVars>>
    \/ \E j \in JobIds : MarkProcessing(j) /\ UNCHANGED <<clsVars, gwVars, schedVars, restVars>>
    \/ \E j \in JobIds : SelectSubscription(j) /\ UNCHANGED <<clsVars, gwVars, schedVars, restVars>>
    \/ \E d \in Downloaders, x \in JobIds, committed \in BOOLEAN :
           cancel_download(d, x, committed) /\ UNCHANGED <<clsVars, gwVars, schedVars, restVars>>
    \/ CancelWriteJobs /\ UNCHANGED <<clsVars, gwVars, schedVars, restVars>>
    \/ CancelWriteVideo /\ UNCHANGED <<clsVars, gwVars, schedVars, restVars>>
SpecJobs == Init /\ [][NextJobs]_vars

InitDiscovery == ClsIdle /\ GwInit /\ JobInit /\ SchedInit /\ RestIdle
NextDiscovery ==
    \/ \E s \in SubscriptionIds : Fire(s) /\ UNCHANGED <<clsVars, gwVars, restVars>>
    \/ \E s \in SubscriptionIds, found \in BOOLEAN :
           LoadSubscription(s, found) /\ UNCHANGED <<clsVars, gwVars, restVars>>
    \/ \E s \in SubscriptionIds, f \in FeedIds \cup {"raise"} :
           Extract(s, f) /\ UNCHANGED <<clsVars, gwVars, restVars>>
    \/ \E s \in SubscriptionIds : CheckExisting(s) /\ UNCHANGED <<clsVars, gwVars, restVars>>
    \/ \E s \in SubscriptionIds : InsertMatched(s) /\ UNCHANGED <<clsVars, gwVars, restVars>>
    \/ \E s \in SubscriptionIds : QueueMatched(s) /\ UNCHANGED <<clsVars, gwVars, restVars>>
    \/ \E s \in SubscriptionIds : UpdateSubscription(s) /\ UNCHANGED <<clsVars, gwVars, restVars>>
    \/ \E s \in SubscriptionIds : CompleteEvent(s) /\ UNCHANGED <<clsVars, gwVars, restVars>>
SpecDiscovery == InitDiscovery /\ [][NextDiscovery]_vars

\* the runs with statements of the enqueue that fail
NextDiscoveryFaults ==
    \/ NextDiscovery
    \/ \E s \in SubscriptionIds :
           QueueMatched_raises(s) /\ UNCHANGED <<clsVars, gwVars, restVars>>
SpecDiscoveryFaults == InitDiscovery /\ [][NextDiscoveryFaults]_vars

\* a started run is a coroutine of the event loop: each of its steps is taken
RunStep(s) ==
    \/ \E found \in BOOLEAN : LoadSubscription(s, found)
    \/ \E f \in FeedIds \cup {"raise"} : Extract(s, f)
    \/ CheckExisting(s)
    \/ InsertMatched(s)
    \/ QueueMatched(s)
    \/ UpdateSubscription(s)
    \/ CompleteEvent(s)
DiscoveryFairness ==
    \A s \in SubscriptionIds :
        WF_vars(RunStep(s) /\ UNCHANGED <<clsVars, gwVars, restVars>>)
SpecDiscoveryFair == InitDiscovery /\ [][NextDiscovery]_vars /\ DiscoveryFairness

\* the event loop runs a timer that is due and lets time pass while none is
GatewayFairness ==
    /\ WF_vars(Tick /\ UNCHANGED <<clsVars, jobVars, schedVars, restVars>>)
    /\ \A c \in Callers :
          WF_vars(WakeRateSleep(c) /\ UNCHANGED <<clsVars, jobVars, schedVars, restVars>>)
    /\ \A c \in Callers :
          WF_vars(WakeBackoffSleep(c) /\ UNCHANGED <<clsVars, jobVars, schedVars, restVars>>)
SpecGatewayFair == InitGateway /\ [][NextGateway]_vars /\ GatewayFairness

InitBackoff ==
    ClsIdle /\ GwInit /\ JobInit /\ SchedIdle /\ BkInit /\ TrigIdle /\ SubIdle /\ LateIdle
NextBackoff ==
    \E error \in MessageIds, mult \in BlockingMultipliers :
        ComputeDelay(error, mult)
            /\ UNCHANGED <<clsVars, gwVars, jobVars, schedVars, trigVars, subVars, lateVars>>
SpecBackoff == InitBackoff /\ [][NextBackoff]_vars

\* calls of the scheduler's interface in any order
InitTriggers ==
    ClsIdle /\ GwInit /\ JobInit /\ SchedIdle /\ BkIdle /\ TrigInit /\ SubIdle /\ LateIdle
NextTriggers ==
    \/ \E s \in SubscriptionIds, expr \in CronExprs :
           add_subscription(s, expr)
               /\ UNCHANGED <<clsVars, gwVars, jobVars, schedVars, bkVars, subVars, lateVars>>
    \/ \E s \in SubscriptionIds, expr \in CronExprs :
           update_subscription(s, expr)
               /\ UNCHANGED <<clsVars, gwVars, jobVars, schedVars, bkVars, subVars, lateVars>>
    \/ \E s \in SubscriptionIds :
           remove_subscription(s)
               /\ UNCHANGED <<clsVars, gwVars, jobVars, schedVars, bkVars, subVars, lateVars>>
SpecTriggers == InitTriggers /\ [][NextTriggers]_vars

\* requests of the subscription endpoints, two at a time
otherVars == <<clsVars, gwVars, jobVars, schedVars, bkVars, lateVars>>
InitSubscriptions ==
    ClsIdle /\ GwInit /\ JobInit /\ SchedIdle /\ BkIdle /\ TrigLoaded /\ SubInit /\ LateIdle
NextSubscriptions ==
    \/ \E h \in Handlers, op \in {"delete", "pause", "resume"}, id \in SubscriptionIds :
           Request(h, op, id, NoBody) /\ UNCHANGED otherVars
    \/ \E h \in Handlers, id \in SubscriptionIds, body \in UpdateBodies :
           Request(h, "update", id, body) /\ UNCHANGED otherVars
    \/ \E h \in Handlers, body \in CreateBodies :
           CreateRequest(h, body) /\ UNCHANGED otherVars
    \/ \E h \in Handlers : Create_InsertRow(h) /\ UNCHANGED otherVars
    \/ \E h \in Handlers : Create_Register(h) /\ UNCHANGED otherVars
    \/ \E h \in Handlers : SelectExisting(h) /\ UNCHANGED otherVars
    \/ \E h \in Handlers : Update_UpdateRow(h) /\ UNCHANGED otherVars
    \/ \E h \in Handlers : Update_SelectUpdated(h) /\ UNCHANGED otherVars
    \/ \E h \in Handlers : Update_Reschedule(h) /\ UNCHANGED otherVars
    \/ \E h \in Handlers : Deregister(h) /\ UNCHANGED otherVars
    \/ \E h \in Handlers : Delete_DeleteRow(h) /\ UNCHANGED otherVars
    \/ \E h \in Handlers : Pause_DisableRow(h) /\ UNCHANGED otherVars
    \/ \E h \in Handlers : Resume_EnableRow(h) /\ UNCHANGED otherVars
    \/ \E h \in Handlers : Resume_SelectFrequency(h) /\ UNCHANGED otherVars
    \/ \E h \in Handlers : Resume_Register(h) /\ UNCHANGED otherVars
SpecSubscriptions == InitSubscriptions /\ [][NextSubscriptions]_vars

\* the same requests with parseable cron expressions only, each received
\* after the one before it was answered
NextToggles ==
    \/ \E h \in Handlers, op \in {"delete", "pause", "resume"}, id \in SubscriptionIds :
           Quiescent /\ Request(h, op, id, NoBody) /\ UNCHANGED otherVars
    \/ \E h \in Handlers, id \in SubscriptionIds, body \in ParseableUpdateBodies :
           Quiescent /\ Request(h, "update", id, body) /\ UNCHANGED otherVars
    \/ \E h \in Handlers, body \in ParseableCreateBodies :
           Quiescent /\ CreateRequest(h, body) /\ UNCHANGED otherVars
    \/ \E h \in Handlers : Create_InsertRow(h) /\ UNCHANGED otherVars
    \/ \E h \in Handlers : Create_Register(h) /\ UNCHANGED otherVars
    \/ \E h \in Handlers : SelectExisting(h) /\ UNCHANGED otherVars
    \/ \E h \in Handlers : Update_UpdateRow(h) /\ UNCHANGED otherVars
    \/ \E h \in Handlers : Update_SelectUpdated(h) /\ UNCHANGED otherVars
    \/ \E h \in Handlers : Update_Reschedule(h) /\ UNCHANGED otherVars
    \/ \E h \in Handlers : Deregister(h) /\ UNCHANGED otherVars
    \/ \E h \in Handlers : Delete_DeleteRow(h) /\ UNCHANGED otherVars
    \/ \E h \in Handlers : Pause_DisableRow(h) /\ UNCHANGED otherVars
    \/ \E h \in Handlers : Resume_EnableRow(h) /\ UNCHANGED otherVars
    \/ \E h \in Handlers : Resume_SelectFrequency(h) /\ UNCHANGED otherVars
    \/ \E h \in Handlers : Resume_Register(h) /\ UNCHANGED otherVars
SpecToggles == InitSubscriptions /\ [][NextToggles]_vars

\* at most MaxChecks manual check requests (or subscription creations, which
\* queue the same job)
MaxChecks == 2

\* cron firings of the scheduler together with the discovery jobs the
\* endpoints queue at the API's Downloader
InitChecks == ClsIdle /\ GwInit /\ JobInit /\ SchedInit /\ RestIdle
NextChecks ==
    \/ NextDiscovery
    \/ \E s \in SubscriptionIds :
           /\ Cardinality({j \in JobIds : jobs[j].job_type = "subscription_discovery"})
                  < MaxChecks
           /\ queue_discovery_job(s)
           /\ UNCHANGED <<clsVars, gwVars, schedVars, restVars>>
    \/ \E j \in JobIds :
           /\ jobs[j].job_type = "subscription_discovery"
           /\ SelectJob(j)
           /\ UNCHANGED <<clsVars, gwVars, schedVars, restVars>>
    \/ \E j \in JobIds : MarkProcessing(j) /\ UNCHANGED <<clsVars, gwVars, schedVars, restVars>>
    \/ \E j \in JobIds : SelectSubscription(j) /\ UNCHANGED <<clsVars, gwVars, schedVars, restVars>>
SpecChecks == InitChecks /\ [][NextChecks]_vars

\* the download jobs of the API's Downloader alone: single and bulk requests
InitApiJobs == Init
NextApiJobs ==
    \/ create_video /\ UNCHANGED <<clsVars, gwVars, schedVars, restVars>>
    \/ \E v \in 1..(Len(videos) + 1) :
           bulk_download(v) /\ UNCHANGED <<clsVars, gwVars, schedVars, restVars>>
    \/ \E j \in JobIds : SelectJob(j) /\ UNCHANGED <<clsVars, gwVars, schedVars, restVars>>
    \/ \E j \in JobIds : SelectVideo(j) /\ UNCHANGED <<clsVars, gwVars, schedVars, restVars>>
    \/ \E j \in JobIds : Admit(j) /\ UNCHANGED <<clsVars, gwVars, schedVars, restVars>>
    \/ \E j \in JobIds :
           MarkDownloading(j) /\ UNCHANGED <<clsVars, gwVars, schedVars, restVars>>
    \/ \E j \in JobIds, ok \in BOOLEAN :
           TransferEnds(j, ok) /\ UNCHANGED <<clsVars, gwVars, schedVars, restVars>>
    \/ \E j \in JobIds : WriteVideo(j) /\ UNCHANGED <<clsVars, gwVars, schedVars, restVars>>
    \/ \E j \in JobIds : WriteJob(j) /\ UNCHANGED <<clsVars, gwVars, schedVars, restVars>>
SpecApiJobs == InitApiJobs /\ [][NextApiJobs]_vars

\* the task of a job is a coroutine of the event loop and every gateway call
\* ends: each step of a created task is taken
TaskStep(j) ==
    /\ j \in JobIds
    /\ \/ SelectJob(j)
       \/ SelectVideo(j)
       \/ Admit(j)
       \/ MarkDownloading(j)
       \/ \E ok \in BOOLEAN : TransferEnds(j, ok)
       \/ WriteVideo(j)
       \/ WriteJob(j)
JobFairness ==
    \A j \in 1..MaxJobs :
        WF_vars(TaskStep(j) /\ UNCHANGED <<clsVars, gwVars, schedVars, restVars>>)
SpecApiJobsFair == InitApiJobs /\ [][NextApiJobs]_vars /\ JobFairness

\* main.py lifespan after the process died: init_db finds the tables and
\* returns, the Downloaders are new objects (a full Semaphore, empty dicts), and
\* no statement reads job_queue. The tasks of the old event loop are gone with
\* it; the rows of the store stay
Live(j) == tasks[j].pc \notin {"done", "crashed", "returned", "lost"}
Restart ==
    /\ \E j \in JobIds : Live(j)
    /\ tasks' = [j \in 1..Len(tasks) |->
                    IF Live(j) THEN [tasks[j] EXCEPT !.pc = "lost"] ELSE tasks[j]]
    /\ permits' = [d \in Downloaders |-> MAX_CONCURRENT_DOWNLOADS]
    /\ active_downloads' = [d \in Downloaders |-> {}]
    /\ active_tasks' = [d \in Downloaders |-> {}]
    /\ UNCHANGED <<videos, jobs, cancel_op>>

\* the download jobs of the API in a process that may die and start again
NextRestart ==
    \/ NextApiJobs
    \/ Restart /\ UNCHANGED <<clsVars, gwVars, schedVars, restVars>>
SpecRestart == InitApiJobs /\ [][NextRestart]_vars

\* the download jobs of the API with its retry endpoints
retryOtherVars == <<clsVars, gwVars, schedVars, bkVars, trigVars, subVars, recVars,
    prioVars,
    progVars>>
InitRetry ==
    /\ ClsIdle /\ GwInit /\ JobInit /\ SchedIdle /\ BkIdle /\ TrigIdle /\ SubIdle
    /\ RetryInit /\ RecIdle /\ PrioIdle /\ ProgIdle
NextRetry ==
    \/ NextApiJobs
    \/ \E id \in JobIds : retry_download(id) /\ UNCHANGED retryOtherVars
    \/ retry_all_failed /\ UNCHANGED retryOtherVars
SpecRetry == InitRetry /\ [][NextRetry]_vars

\* calls of RecoveryManager.scan_and_recover, one after the other
recOtherVars == <<clsVars, gwVars, jobVars, schedVars, bkVars, trigVars, subVars, retryVars,
    prioVars,
    progVars>>
InitRecovery ==
    /\ ClsIdle /\ GwInit /\ JobInit /\ SchedIdle /\ BkIdle /\ TrigIdle /\ SubIdle
    /\ RetryIdle /\ RecInit /\ PrioIdle /\ ProgIdle
NextRecovery ==
    \/ scan_and_recover /\ UNCHANGED recOtherVars
    \/ _process_channel /\ UNCHANGED recOtherVars
    \/ _process_video /\ UNCHANGED recOtherVars
SpecRecovery == InitRecovery /\ [][NextRecovery]_vars

\* the same with store statements that raise
NextRecoveryFaults ==
    \/ NextRecovery
    \/ _process_channel_raises /\ UNCHANGED recOtherVars
    \/ _process_video_raises /\ UNCHANGED recOtherVars
SpecRecoveryFaults == InitRecovery /\ [][NextRecoveryFaults]_vars

\* download requests with priorities at the API's Downloader, one per pending
\* item
prioOtherVars == <<clsVars, gwVars, schedVars, bkVars, trigVars, subVars, retryVars, recVars,
    progVars>>
InitPriority ==
    /\ ClsIdle /\ GwInit /\ SchedIdle /\ BkIdle /\ TrigIdle /\ SubIdle
    /\ RetryIdle /\ RecIdle /\ PrioIdle
    /\ videos = PendingVideos
    /\ jobs = <<>>
    /\ tasks = <<>>
    /\ permits = [d \in Downloaders |-> MAX_CONCURRENT_DOWNLOADS]
    /\ active_downloads = [d \in Downloaders |-> {}]
    /\ active_tasks = [d \in Downloaders |-> {}]
    /\ cancel_op = [pc |-> "idle", video_id |-> 0] /\ ProgIdle
NextPriority ==
    \/ \E p \in Priorities :
           queue_video_download_with_priority(Len(jobs) + 1, p) /\ UNCHANGED prioOtherVars
    \/ \E j \in JobIds : SelectJob(j) /\ UNCHANGED <<prioVars, prioOtherVars>>
    \/ \E j \in JobIds : SelectVideo_or_wait(j) /\ UNCHANGED prioOtherVars
    \/ \E j \in JobIds : Admit_first_waiter(j) /\ UNCHANGED prioOtherVars
    \/ \E j \in JobIds : MarkDownloading(j) /\ UNCHANGED <<prioVars, prioOtherVars>>
    \/ \E j \in JobIds, ok \in BOOLEAN :
           TransferEnds(j, ok) /\ UNCHANGED <<prioVars, prioOtherVars>>
    \/ \E j \in JobIds : WriteVideo(j) /\ UNCHANGED <<prioVars, prioOtherVars>>
    \/ \E j \in JobIds : WriteJob(j) /\ UNCHANGED <<prioVars, prioOtherVars>>
SpecPriority == InitPriority /\ [][NextPriority]_vars

\* download requests of the API for stored items, with the progress hooks of
\* the transfers and the writes they schedule
progOtherVars == <<clsVars, gwVars, schedVars, bkVars, trigVars, subVars, retryVars, recVars,
    prioVars>>
InitProgress ==
    /\ ClsIdle /\ GwInit /\ SchedIdle /\ BkIdle /\ TrigIdle /\ SubIdle
    /\ RetryIdle /\ RecIdle /\ PrioIdle /\ ProgIdle
    /\ videos = PendingVideos
    /\ jobs = <<>>
    /\ tasks = <<>>
    /\ permits = [d \in Downloaders |-> MAX_CONCURRENT_DOWNLOADS]
    /\ active_downloads = [d \in Downloaders |-> {}]
    /\ active_tasks = [d \in Downloaders |-> {}]
    /\ cancel_op = [pc |-> "idle", video_id |-> 0]
NextProgress ==
    \/ \E v \in {RequestedItem(Len(jobs) + 1)} :
           /\ Len(jobs) < MaxProgressJobs
           /\ bulk_download(v) /\ QueueProgress /\ UNCHANGED progOtherVars
    \/ \E j \in JobIds : SelectJob(j) /\ UNCHANGED <<progVars, progOtherVars>>
    \/ \E j \in JobIds : SelectVideo(j) /\ UNCHANGED <<progVars, progOtherVars>>
    \/ \E j \in JobIds : Admit(j) /\ UNCHANGED <<progVars, progOtherVars>>
    \/ \E j \in JobIds : MarkDownloading(j) /\ UNCHANGED <<progVars, progOtherVars>>
    \/ \E j \in JobIds, hooks \in HooksOfSuccess \cup HooksOfFailure, ok, again \in BOOLEAN :
           DownloadAttempt(j, hooks, ok, again) /\ UNCHANGED progOtherVars
    \/ \E j \in JobIds : UpdateProgressDb(j) /\ UNCHANGED progOtherVars
    \/ \E j \in JobIds : WriteVideo(j) /\ UNCHANGED <<progVars, progOtherVars>>
    \/ \E j \in JobIds : WriteJobProgress(j) /\ UNCHANGED progOtherVars
SpecProgress == InitProgress /\ [][NextProgress]_vars

(***************************************************************************)
(* Claims: the download pipeline (under Spec; C1 under SpecApiJobs)        *)
(***************************************************************************)

DownloadJobs == {j \in 1..Len(jobs) : jobs[j].job_type = "download"}

\* the download jobs are for pairwise distinct content items
DistinctItems ==
    \A i, j \in DownloadJobs : i # j => jobs[i].video_id # jobs[j].video_id

InProgressStatuses == {"downloading", "processing"}

InProgress(d) ==
    {j \in DownloadJobs : tasks[j].owner = d /\ jobs[j].status \in InProgressStatuses}

NotYetAdmitted(j) == tasks[j].pc \in {"select_job", "select_video", "wait_permit"}

Transfers == {j \in DownloadJobs : tasks[j].pc = "transfer"}

AllowedEdge(from, to) ==
    \/ from = "queued" /\ to \in InProgressStatuses
    \/ from \in InProgressStatuses /\ to \in {"completed", "failed"}
    \/ from = "failed" /\ to = "queued"

C4_OneActiveJobPerItem ==
    \A i, j \in DownloadJobs :
        /\ i # j
        /\ jobs[i].video_id = jobs[j].video_id
        /\ jobs[i].status \in {"queued"} \cup InProgressStatuses
        => jobs[j].status \notin {"queued"} \cup InProgressStatuses

(***************************************************************************)
(* Claims: discovery (under SpecDiscovery)                                 *)
(***************************************************************************)

\* C5: no two content items share an external id, and no run reports an
\* already stored id as an error.
C5_UniqueExternalIds ==
    /\ \A i, j \in 1..Len(videos) : i # j => videos[i].youtube_id # videos[j].youtube_id
    /\ \A s \in SubscriptionIds : run[s].errors = 0

\* the fetch limit as the specification states it
SpecFetchLimit(W, n) == IF Cardinality(W) >= 3 THEN n ELSE Min(n * 4, 200)

\* the positions of the first n entries from position i on, in source order,
\* whose type is in W and whose id is not in stored, an accepted id counting as
\* stored from then on
RECURSIVE FirstWanted(_, _, _, _, _, _)
FirstWanted(entries, i, last, W, n, stored) ==
    IF i > last \/ n = 0 THEN <<>>
    ELSE IF /\ entries[i].id # ""
            /\ classify_video_type(entries[i]) \in W
            /\ entries[i].id \notin stored
    THEN <<i>> \o FirstWanted(entries, i + 1, last, W, n - 1,
                              stored \cup {entries[i].id})
    ELSE FirstWanted(entries, i + 1, last, W, n, stored)

ExpectedCreated(s) ==
    LET W == Subscription(s).content_types
        n == Subscription(s).latest_n_videos
        entries == Feed(run[s].feed)
    IN  FirstWanted(entries, 1, Min(Len(entries), SpecFetchLimit(W, n)), W, n,
                    run[s].stored_at_start)

\* C6: a finished run has created exactly the first n entries, in source
\* order within the fetch limit, whose type is wanted and whose id was not yet
\* stored, and has set new_videos_count to the number it created.
C6_CreatedAreFirstWanted ==
    \A s \in SubscriptionIds :
        run[s].pc = "done" =>
            /\ run[s].created = ExpectedCreated(s)
            /\ sub_rows[s].new_videos_count = Len(run[s].created)

\* the end-to-end scenario: wanted types [video], latest_n_videos 2, six
\* entries short, video, short, video, short, video, of which the run created
\* the second and the fourth
ScenarioRun(s) ==
    /\ run[s].pc = "done"
    /\ Subscription(s).content_types = {"video"}
    /\ Subscription(s).latest_n_videos = 2
    /\ run[s].feed = "alternating"
    /\ run[s].created = <<2, 4>>

\* C7 as stated: the run of the scenario reports videos_filtered = 3.
C7_AsStated ==
    \A s \in SubscriptionIds :
        ScenarioRun(s) => events[run[s].event_id].videos_filtered = 3

\* C7: the run of the scenario reports videos_filtered = 2, the two shorts
\* before the entry at which the desired count is met.
C7_FilteredInScenario ==
    \A s \in SubscriptionIds :
        ScenarioRun(s) => events[run[s].event_id].videos_filtered = 2

C7_Witness ==
    \E s \in SubscriptionIds :
        /\ ScenarioRun(s)
        /\ events[run[s].event_id].completed
        /\ events[run[s].event_id].videos_added = 2

(***************************************************************************)
(* Claims: classification                                                  *)
(***************************************************************************)

IsLiveEntry(e) == e.is_live \/ e.live_status \in {"is_live", "is_upcoming"}
IsPortrait(e) == e.width > 0 /\ e.height > 0 /\ e.width < e.height

\* C8: the result is live for a live entry, otherwise short for a
\* portrait entry or for one with duration <= 60 and width < height, otherwise
\* video.
C8_AsStated ==
    video_type # "none" =>
        video_type =
            IF IsLiveEntry(entry) THEN "live"
            ELSE IF IsPortrait(entry)
                    \/ (entry.duration <= 60 /\ entry.width < entry.height) THEN "short"
            ELSE "video"

(***************************************************************************)
(* Claims: extraction gateway                                              *)
(***************************************************************************)

\* C9: any two consecutive dispatches to the external source are at least the
\* minimum request interval apart.
C9_MinimumSpacing == dispatch_gap >= YTDLP_MIN_REQUEST_INTERVAL

\* the messages of MessageIds that a permanent-error pattern matches, read off
\* the pattern list by hand
PermanentMessageIds == {"removed", "private403"}

\* C10: once func() has failed with a permanent error the operation has raised
\* that very error, func() was invoked exactly as often as the attempt number
\* says, and the only backoff sleeps are those of the earlier transient
\* failures; also when the message carries 403 or 429.
C10_PermanentRaisesAtOnce ==
    \A c \in Callers :
        last_err[c] \in PermanentMessageIds =>
            /\ gpc[c] = "raised"
            /\ raised[c] = last_err[c]
            /\ calls[c] = attempt[c]
            /\ backoffs[c] = calls[c] - 1

C10_Witness ==
    \E c \in Callers :
        /\ raised[c] = "private403"
        /\ attempt[c] = 3
        /\ backoffs[c] = 2

AttemptsBounded ==
    \A c \in Callers :
        /\ attempt[c] <= YTDLP_MAX_RETRIES
        /\ calls[c] <= attempt[c]
        /\ gpc[c] = "returned" =>
               /\ calls[c] = attempt[c]
               /\ backoffs[c] = attempt[c] - 1
               /\ raised[c] = "none"
        /\ raised[c] = "exhausted" =>
               /\ gpc[c] = "raised"
               /\ calls[c] = YTDLP_MAX_RETRIES
               /\ backoffs[c] = YTDLP_MAX_RETRIES - 1

\* C11: an operation never goes beyond attempt YTDLP_MAX_RETRIES; one that
\* returns at attempt k has invoked func() k times after k - 1 backoff sleeps;
\* one whose attempts all failed transiently has invoked it YTDLP_MAX_RETRIES
\* times with one sleep fewer and has raised; and every operation that has
\* begun returns or raises.
C11_OperationTerminates ==
    /\ []AttemptsBounded
    /\ \A c \in Callers : (gpc[c] # "idle") ~> (gpc[c] \in {"returned", "raised"})

C11_Witness ==
    \E c \in Callers :
        /\ raised[c] = "exhausted"
        /\ last_err[c] \in {"timeout", "rate429"}
        /\ calls[c] = YTDLP_MAX_RETRIES
        /\ backoffs[c] = YTDLP_MAX_RETRIES - 1

\* C12: the backoff of attempt k, before the 403/429 multiplier, is
\* min(base * 2^(k-1), cap); it is at least the backoff of attempt k - 1 and
\* at most the cap.
C12_BackoffSequence ==
    \A k \in 1..Len(delays) :
        /\ delays[k].backoff =
               Min(backoff_settings.min_backoff * (2 ^ (k - 1)),
                   backoff_settings.max_backoff)
        /\ delays[k].backoff <= backoff_settings.max_backoff
        /\ k > 1 => delays[k - 1].backoff <= delays[k].backoff

\* the cap is in force at the third backoff of a 429 sequence: 3, 5, 5
C12_Witness ==
    /\ backoff_settings = [min_backoff |-> 3, max_backoff |-> 5]
    /\ Len(delays) = 3
    /\ delays[1].backoff = 3
    /\ delays[2].backoff = 5
    /\ delays[3].backoff = 5
    /\ delays[3].slept = 50

(***************************************************************************)
(* Claims: discovery runs of the scheduler and of the job queue (under     *)
(* SpecChecks)                                                             *)
(***************************************************************************)

DiscoveryJobsInFlight(s) ==
    {j \in 1..Len(jobs) :
        /\ jobs[j].job_type = "subscription_discovery"
        /\ jobs[j].subscription_id = s
        /\ tasks[j].pc \in {"mark_processing", "select_subscription"}}

CronRunInFlight(s) == run[s].pc \notin {"idle", "done"}

\* C13: for each subscription at most one discovery is in flight, counting
\* the run of a cron firing and the discovery jobs of manual checks and of
\* subscription creation.
C13_OneDiscoveryInFlight ==
    \A s \in SubscriptionIds :
        Cardinality(DiscoveryJobsInFlight(s))
            + (IF CronRunInFlight(s) THEN 1 ELSE 0) <= 1

(***************************************************************************)
(* Claims: the cron firing (under SpecDiscovery)                           *)
(***************************************************************************)

\* the run of a firing has received a feed from the extraction gateway
RunCalledGateway(s) == run[s].feed # "none"

\* the run of a firing has inserted content items itself
RunInsertedItems(s) == run[s].created # <<>>

\* C14: the run of a cron firing neither calls the extraction gateway nor
\* inserts content items; it leaves that to a queued discovery job.
C14_FiringOnlyEnqueues ==
    \A s \in SubscriptionIds : ~RunCalledGateway(s) /\ ~RunInsertedItems(s)

EventInFlight(e) ==
    LET s == events[e].subscription_id
    IN  run[s].event_id = e /\ run[s].pc \notin {"idle", "done"}

FinalStatuses == {"success", "partial_success", "failed"}

\* the status the finished run of subscription s must have recorded: failed
\* when it got no feed (subscription missing or disabled, or the extraction
\* raised), partial_success when an insert failed, success otherwise
ExpectedStatus(s) ==
    IF run[s].feed = "none" THEN "failed"
    ELSE IF run[s].errors > 0 THEN "partial_success"
    ELSE "success"

EventsSettled ==
    /\ \A e \in 1..Len(events) :
           ~EventInFlight(e) =>
               events[e].completed /\ events[e].status \in FinalStatuses
    /\ \A s \in SubscriptionIds :
           (run[s].pc \in {"idle", "done"} /\ run[s].event_id > 0) =>
               events[run[s].event_id].status = ExpectedStatus(s)
    /\ \A s \in SubscriptionIds :
           Cardinality({e \in 1..Len(events) :
               events[e].subscription_id = s /\ ~events[e].completed}) <= 1

RegistryConsistent ==
    \A s \in SubscriptionIds :
        /\ Cardinality(TriggersOf(sched_jobs, s)) <= 1
        /\ \A i \in TriggersOf(sched_jobs, s) : sched_jobs[i].cron = accepted[s]

OthersUnchanged(s) ==
    \A o \in SubscriptionIds \ {s} :
        {sched_jobs'[i] : i \in TriggersOf(sched_jobs', o)}
            = {sched_jobs[i] : i \in TriggersOf(sched_jobs, o)}

RemoveOfAbsentIsNoOp ==
    \A s \in SubscriptionIds :
        (remove_subscription(s) /\ TriggersOf(sched_jobs, s) = {}) =>
            (sched_jobs' = sched_jobs /\ OthersUnchanged(s))

\* C16: after any sequence of add, update and remove calls every subscription
\* has at most one trigger and it carries the expression accepted last; a
\* remove of an id without trigger leaves the registry as it was.
C16_OneTriggerWithLatestCron ==
    /\ []RegistryConsistent
    /\ [][RemoveOfAbsentIsNoOp]_vars

\* a trigger has been replaced by an update, next to another subscription's
C16_Witness ==
    /\ last_call.op = "update"
    /\ last_call.cron = Nightly
    /\ \E i \in TriggersOf(sched_jobs, last_call.id) : sched_jobs[i].cron = Nightly
    /\ Len(sched_jobs) = 2
    /\ sched_jobs[2].id = last_call.id

\* C17: after add_subscription or update_subscription with an expression
\* that does not parse, the call has returned normally and the subscription
\* has no trigger, also when it had one before.
C17_BadCronLeavesNoTrigger ==
    (last_call.op \in {"add", "update"} /\ ~from_crontab(last_call.cron)) =>
        /\ last_call.outcome = "returned"
        /\ TriggersOf(sched_jobs, last_call.id) = {}

(***************************************************************************)
(* Claims: stored subscriptions and their triggers (under                  *)
(* SpecSubscriptions)                                                      *)
(***************************************************************************)

\* C18: no trigger is registered for a subscription whose row has been
\* deleted (so no firing starts for it).
C18_NoTriggerForDeletedRow ==
    \A s \in SubscriptionIds :
        TriggersOf(sched_jobs, s) # {} => sub_table[s].exists

\* C19: every stored subscription has a non-empty list of content types.
C19_ContentTypesNonEmpty ==
    \A s \in SubscriptionIds :
        sub_table[s].exists =>
            /\ sub_table[s].content_types.kind = "list"
            /\ sub_table[s].content_types.items # <<>>

\* C20: the check_frequency of every stored subscription has five fields.
C20_StoredCronHasFiveFields ==
    \A s \in SubscriptionIds :
        sub_table[s].exists => Len(sub_table[s].check_frequency) = 5

(***************************************************************************)
(* Claims: the retry endpoints (under SpecRetry)                           *)
(***************************************************************************)

C22_CancelMarksJobFailed ==
    \A x \in 1..Len(tasks) :
        (tasks[x].pc = "cancelled" /\ jobs[x].job_type = "download"
             /\ VideoExists(jobs[x].video_id) /\ cancel_op.pc = "idle") =>
            /\ jobs[x].status = "failed"
            /\ videos[jobs[x].video_id].download_status = "failed"

(***************************************************************************)
(* Claims: permits and live progress (under Spec)                          *)
(***************************************************************************)

\* the tasks of Downloader d inside 'async with self._semaphore'
DownloadsHoldingPermit(d) ==
    {j \in 1..Len(tasks) : tasks[j].owner = d /\ HoldsPermit(tasks[j].pc)}

TaskEnded(j) == tasks[j].pc \in {"returned", "done", "crashed", "cancelled"}

RunFailed(e) == events[e].completed /\ events[e].status = "failed"

\* C25: a failed run leaves last_check and new_videos_count of its
\* subscription as they were (last_check never names a failed run, and the
\* steps of a failing run do not write the row), and no step removes a
\* content item.
C25_FailedRunLeavesSubscription ==
    /\ [](\A e \in 1..Len(events) :
             RunFailed(e) => sub_rows[events[e].subscription_id].last_check # e)
    /\ [][/\ \A s \in SubscriptionIds :
                (run[s].pc = "complete_failed" \/ run'[s].pc = "complete_failed")
                    => sub_rows'[s] = sub_rows[s]
          /\ SubSeq(videos', 1, Len(videos)) = videos]_vars

\* a run of a subscription failed after an earlier run of it had inserted
\* content items and stamped the subscription
C25_Witness ==
    \E e \in 1..Len(events) :
        /\ RunFailed(e)
        /\ sub_rows[events[e].subscription_id].last_check \in 1..(e - 1)
        /\ sub_rows[events[e].subscription_id].new_videos_count > 0
        /\ videos # <<>>

(***************************************************************************)
(* Claims: discovery runs under weak fairness (under SpecDiscoveryFair)    *)
(***************************************************************************)

\* extract_info returned in the current run of subscription s
ExtractionSucceeded(s) == run[s].feed # "none"

\* the row of s carries the stamp of its current run and the number of
\* content items this run inserted
Stamped(s) ==
    sub_rows[s] = [last_check |-> run[s].event_id,
                   new_videos_count |-> Len(run[s].created)]

InsertFailures(s) == Len(MatchedToInsert(s, run[s].matched)) - Len(run[s].created)
EnqueueFailures(s) ==
    IF Subscription(s).auto_download THEN run[s].new_videos - run[s].videos_queued
    ELSE 0

\* C27: a run that went through its insert loop reports one error per matched
\* entry whose insert or enqueue failed, has inserted the other matched
\* entries, and ends as partial_success when there was a failure.
C27_FailuresAreCountedPerEntry ==
    \A s \in SubscriptionIds :
        run[s].pc = "done" =>
            LET e == events[run[s].event_id]
                failures == InsertFailures(s) + EnqueueFailures(s)
            IN  /\ e.error_count = failures
                /\ e.videos_added = Len(MatchedToInsert(s, run[s].matched))
                                        - InsertFailures(s)
                /\ failures > 0 => e.status = "partial_success"

(***************************************************************************)
(* Claims: the recovery scan (under SpecRecovery)                          *)
(***************************************************************************)

ScanWrote ==
    \/ scan.result.channels_created + scan.result.channels_updated > 0
    \/ scan.result.videos_created + scan.result.videos_updated > 0
    \/ channels # scan.channels_before
    \/ video_rows # scan.videos_before

\* C28: a second scan of the same archive, started on the store the first
\* scan left, reports nothing created and nothing updated and leaves every
\* row as it was.
C28_SecondScanIsNoOp ==
    (scans_run = 2 /\ scan.pc = "returned") => ~ScanWrote

\* C29: a scan started on a store that holds a channel or a content item
\* creates and updates nothing.
C29_ScanOnlyOnEmptyStore ==
    (scan.pc = "returned"
         /\ (scan.channels_before # <<>> \/ scan.videos_before # <<>>)) =>
        /\ scan.result.channels_created + scan.result.videos_created = 0
        /\ scan.result.channels_updated + scan.result.videos_updated = 0
        /\ channels = scan.channels_before
        /\ video_rows = scan.videos_before

\* the channel directories that resolve to an external id, and the external
\* ids the directories of the archive resolve to
ResolvedChannelDirs ==
    {n \in 1..Len(archive) : _extract_channel_info(archive[n]) # NoMatch}
ArchiveChannelIds == {_extract_channel_info(archive[n]) : n \in ResolvedChannelDirs}
ArchiveVideoIds ==
    UNION {{info.youtube_id : info \in
               {_discover_channel_videos(archive[n])[i] :
                    i \in 1..Len(_discover_channel_videos(archive[n]))}} :
           n \in ResolvedChannelDirs}

RowsWith(table, youtube_id) ==
    {i \in 1..Len(table) : table[i].youtube_id = youtube_id}

\* C30: after a scan the store holds exactly one row for every external id a
\* channel or video directory resolved to, and every row it held before.
C30_OneRowPerDiscoveredId ==
    scan.pc = "returned" =>
        /\ \A id \in ArchiveChannelIds : Cardinality(RowsWith(channels, id)) = 1
        /\ \A id \in ArchiveVideoIds : Cardinality(RowsWith(video_rows, id)) = 1
        /\ \A i \in 1..Len(scan.channels_before) :
               i <= Len(channels)
                   /\ channels[i].youtube_id = scan.channels_before[i].youtube_id
        /\ \A i \in 1..Len(scan.videos_before) :
               i <= Len(video_rows)
                   /\ video_rows[i].youtube_id = scan.videos_before[i].youtube_id

(***************************************************************************)
(* Claims: failures during the recovery scan (under SpecRecoveryFaults)    *)
(***************************************************************************)

\* the video directories of the resolved channel directories whose
\* processing raised during discovery
RaisingDirs ==
    UNION {{archive[n].video_dirs[i] : i \in
               {k \in 1..Len(archive[n].video_dirs) :
                    _extract_video_info(archive[n].video_dirs[k]).youtube_id = Raised}} :
           n \in {m \in 1..Len(archive) : _extract_channel_info(archive[m]) # NoMatch}}

ErrorsOf(kind, youtube_id) ==
    {k \in 1..Len(scan.result.errors) :
        /\ scan.result.errors[k].kind = kind
        /\ scan.result.errors[k].youtube_id = youtube_id}

ChannelErrors == {k \in 1..Len(scan.result.errors) : scan.result.errors[k].kind = "channel"}
VideoErrors == {k \in 1..Len(scan.result.errors) : scan.result.errors[k].kind = "video"}

ExaminedPositions(s) ==
    {run[s].idx} \cup {run[s].matched[k] : k \in 1..Len(run[s].matched)}
        \cup {run[s].created[k] : k \in 1..Len(run[s].created)}

ProcessingRaised(j) == tasks[j].pc = "crashed"

\* C33: every job whose processing raised an error has status failed; it is
\* not left in queued or in an in-progress status.
C33_RaisedJobsEndFailed ==
    \A j \in 1..Len(jobs) : ProcessingRaised(j) => jobs[j].status = "failed"

(***************************************************************************)
(* Claims: every job ends (under SpecApiJobsFair)                          *)
(***************************************************************************)

JobEnded(j) == j <= Len(jobs) /\ jobs[j].status \in {"completed", "failed"}

\* C34: with gateway calls that end and fair scheduling, every enqueued job
\* eventually reaches completed or failed.
C34_EveryJobEnds ==
    \A j \in 1..MaxJobs : (j <= Len(jobs)) ~> JobEnded(j)

(***************************************************************************)
(* Claims: the order of admission (under SpecPriority)                     *)
(***************************************************************************)

Waiting(j) == tasks[j].pc = "wait_permit"

\* job j goes before job k: higher priority, or the same and created earlier
\* (created_at follows the job id)
GoesBefore(j, k) ==
    \/ job_priority[j] > job_priority[k]
    \/ job_priority[j] = job_priority[k] /\ j <= k

C36_TriggerIffEnabled ==
    Quiescent =>
        \A s \in SubscriptionIds :
            (TriggersOf(sched_jobs, s) # {}) <=>
                (sub_table[s].exists /\ sub_table[s].enabled)

\* subscription 1 was disabled and subscription 2 created enabled
C36_Witness ==
    /\ Quiescent
    /\ sub_table[1].exists /\ ~sub_table[1].enabled /\ TriggersOf(sched_jobs, 1) = {}
    /\ sub_table[2].exists /\ sub_table[2].enabled /\ TriggersOf(sched_jobs, 2) # {}
    /\ sub_table[2].check_frequency = Nightly

(***************************************************************************)
(* Claims: the normalised extraction result (under SpecDiscovery)          *)
(***************************************************************************)

\* C37: every discovery run normalises the extraction result as the queued
\* discovery job does: a collection yields its entries and a single item is a
\* one-entry list, so a finished run over a single-item source has found, and
\* iterated, that one item.
C37_SingleItemIsCandidate ==
    \A s \in SubscriptionIds :
        run[s].pc = "done" =>
            /\ Feed(run[s].feed) = EntriesOfJob(run[s].feed)
            /\ events[run[s].event_id].videos_found = Len(EntriesOfJob(run[s].feed))

(***************************************************************************)
(* Claims: jobs left behind by a dead process (under SpecRestart)          *)
(***************************************************************************)

\* a job row persisted as queued or in progress whose task died with its process
Orphaned(j) ==
    /\ tasks[j].pc = "lost"
    /\ jobs[j].status \in {"queued", "downloading", "processing"}

LostJobsNeverPickedUp ==
    [][\A j \in JobIds : tasks[j].pc = "lost" => tasks'[j] = tasks[j]]_vars

(***************************************************************************)
(* Claims: the rows a download job writes (under SpecApiJobs)              *)
(***************************************************************************)

ProgressWriteHits(j) ==
    \E k \in JobIds : jobs[k].video_id = jobs[j].video_id /\ callbacks'[k] < callbacks[k]

CompletedRowsAt100 ==
    \A j \in JobIds : jobs[j].status = "completed" => job_progress[j] = 100

====
